---- MODULE Spec2Model ----
(***************************************************************************)
(* One-time report-access tokens of the Cornerstone backend.               *)
(*                                                                         *)
(* The token table dbo.ReportAccessTokens is shared by two servers of the  *)
(* repository: the Node/Express server (create-token, check-token,         *)
(* finalise-token, express.static) and the ASP.NET server (gatekeeper      *)
(* middleware, create-token, finalise-token, static files).                *)
(*                                                                         *)
(* Time is counted in half seconds, so that the rounding of the            *)
(* DATETIME2(0) columns to whole seconds is visible.  A request is a       *)
(* record in a slot of reqs; it advances at the awaits of its handler.     *)
(*                                                                         *)
(* Beside the token routes stand the encoder of the tokens (generateToken, *)
(* GenerateToken), the service worker of the pages with its cache, and the *)
(* auth routes of the Node server with the users table and the sessions.   *)
(***************************************************************************)
EXTENDS Integers, Sequences, FiniteSets, TLC

VARIABLES
    tokens,     \* rows of dbo.ReportAccessTokens, in insertion order
    identity,   \* next value of the IDENTITY(1,1) column TokenId
    dbNow,      \* SYSUTCDATETIME() of the database server, in half seconds
    advances,   \* number of clock advances so far
    appSkew,    \* clock of the Node process minus the clock of the database
    dbUp,       \* the database is reachable
    pool,       \* the module-level `pool` of the Node server
    config,     \* what the processes were started with: base URLs, Stripe key
    reqs,       \* the requests in flight or answered, one per slot
    rnd,        \* byte strings the random source gave out
    enc,        \* what generateToken and GenerateToken made of them
    cache,      \* the URLs the service worker's cache holds a response for
    online,     \* the browser reaches the server
    users,      \* rows of the users table, in insertion order
    userIdentity, \* next value of the IDENTITY(1,1) column Id of the users table
    sessions    \* session store of the Node server: userId per client cookie

vars == <<tokens, identity, dbNow, advances, appSkew, dbUp, pool, config, reqs,
          rnd, enc, cache, online, users, userIdentity, sessions>>

\* the random source and the encoder
random == <<rnd, enc>>

\* the browser side
worker == <<cache, online>>

\* accounts and sessions of the Node server
accounts == <<users, userIdentity, sessions>>

\* what the token routes leave alone
others == <<random, worker, accounts>>

-----------------------------------------------------------------------------
(* Bounds *)

MaxReqs == 3

MaxRace == 4

MaxAdvances == 3

MaxInserts == 2

\* bytes asked of the random source in one call
MaxBytes == 3

\* calls of the random source
MaxDraws == 2

-----------------------------------------------------------------------------
(* Values *)

\* the slots for requests
Reqs == DOMAIN reqs

\* a JSON body field or query parameter that is not there (undefined / null)
Absent == "<absent>"

\* strings the random source can come out as, after encoding
Tokens == {"tA", "tB"}

NullTime == -1

\* browsers, each with its own cs_sess cookie
Clients == {"c1", "c2"}

\* no session, or a session without a userId
NoUser == 0

TtlHours == 24

TTL == TtlHours * 3600 * 2

\* the clock moves by half a second or by just under the time to live
ClockSteps == {1, TTL - 1}

\* the Node process reads its own clock, half a second off at most
Skews == {0 - 1, 0, 1}

\* JavaScript `!v` for the values a field can have
Falsy(v) == v \in {Absent, ""}

\* string.IsNullOrWhiteSpace
IsNullOrWhiteSpace(v) == v \in {Absent, "", " "}

\* storing a datetime2(7) value in a DATETIME2(0) column rounds to the second
Datetime2_0(t) == ((t + 1) \div 2) * 2

AppNow == dbNow + appSkew

\* A URL is a sequence of pieces: "/", "?" and "&" are pieces of their own and
\* no other piece holds one of them
Origin == <<"https:", "/", "/", "cornerstoneplus.azurewebsites.net">>

\* String.prototype.includes / string.Contains for a single character
Contains(s, c) == \E i \in 1..Len(s) : s[i] = c

\* string.TrimEnd(c), and String.prototype.replace(/c+$/, '')
RECURSIVE TrimEnd(_, _)
TrimEnd(s, c) ==
    IF s # <<>> /\ s[Len(s)] = c
    THEN TrimEnd(SubSeq(s, 1, Len(s) - 1), c)
    ELSE s

\* the environment and appsettings when none is set: REPORT_BASE_URL of the
\* Node server, App:ReportBaseUrl of the ASP.NET server, APP_BASE_URL, and
\* whether STRIPE_SECRET_KEY gave a Stripe client
DefaultConfig ==
    [REPORT_BASE_URL |-> Origin \o <<"/", "BCC.html">>,
     reportBaseUrl   |-> Origin,
     APP_BASE_URL    |-> <<>>,
     stripe          |-> FALSE]

-----------------------------------------------------------------------------
(* The token table *)

RowsOf(tbl, key) == {i \in 1..Len(tbl) : tbl[i].Token = key}

\* the WHERE clause without `AND Used = 0`
ValidRowsIgnoringUsed(tbl, key, now) ==
    {i \in RowsOf(tbl, key) : tbl[i].ExpiresAt > now}

\* the WHERE clause without `AND ExpiresAt > SYSUTCDATETIME()`
ValidRowsIgnoringExpiry(tbl, key, now) ==
    {i \in RowsOf(tbl, key) : tbl[i].Used = 0}

\* the WHERE clause with `ExpiresAt >= SYSUTCDATETIME()`
ValidRowsInclusive(tbl, key, now) ==
    {i \in RowsOf(tbl, key) : tbl[i].Used = 0 /\ tbl[i].ExpiresAt >= now}

\* WHERE Token = @Token AND Used = 0 AND ExpiresAt > SYSUTCDATETIME()
ValidRows(tbl, key, now) ==
    {i \in RowsOf(tbl, key) : tbl[i].Used = 0 /\ tbl[i].ExpiresAt > now}

\* an INSERT whose ExpiresAt is SYSUTCDATETIME() without the DATEADD
NewRowNoTtl(id, tok, email, paymentId, now) ==
    [TokenId   |-> id,
     Token     |-> tok,
     UserEmail |-> email,
     PaymentId |-> paymentId,
     ExpiresAt |-> Datetime2_0(now),
     Used      |-> 0,
     UsedAt    |-> NullTime,
     CreatedAt |-> Datetime2_0(now)]

\* INSERT (Token, UserEmail, PaymentId, ExpiresAt) VALUES (.., DATEADD(HOUR, 24, SYSUTCDATETIME()))
NewRow(id, tok, email, paymentId, now) ==
    [TokenId   |-> id,
     Token     |-> tok,
     UserEmail |-> email,
     PaymentId |-> paymentId,
     ExpiresAt |-> Datetime2_0(now + TTL),
     Used      |-> 0,
     UsedAt    |-> NullTime,
     CreatedAt |-> Datetime2_0(now)]

\* an UPDATE that sets UsedAt and forgets Used
MarkUsedAtOnly(tbl, key, now) ==
    [i \in 1..Len(tbl) |->
        IF i \in ValidRows(tbl, key, now)
        THEN [tbl[i] EXCEPT !.UsedAt = Datetime2_0(now)]
        ELSE tbl[i]]

\* an UPDATE that sets Used and forgets UsedAt
MarkUsedNoUsedAt(tbl, key, now) ==
    [i \in 1..Len(tbl) |->
        IF i \in ValidRows(tbl, key, now)
        THEN [tbl[i] EXCEPT !.Used = 1]
        ELSE tbl[i]]

\* an UPDATE whose WHERE clause lacks `AND Used = 0`
MarkUsedAgain(tbl, key, now) ==
    [i \in 1..Len(tbl) |->
        IF i \in RowsOf(tbl, key) /\ tbl[i].ExpiresAt > now
        THEN [tbl[i] EXCEPT !.Used = 1, !.UsedAt = Datetime2_0(now)]
        ELSE tbl[i]]

\* an UPDATE whose WHERE clause lacks `Token = @Token`
MarkUsedAllRows(tbl, key, now) ==
    [i \in 1..Len(tbl) |->
        IF tbl[i].Used = 0 /\ tbl[i].ExpiresAt > now
        THEN [tbl[i] EXCEPT !.Used = 1, !.UsedAt = Datetime2_0(now)]
        ELSE tbl[i]]

\* UPDATE .. SET Used = 1, UsedAt = SYSUTCDATETIME() WHERE Token = @Token AND Used = 0 AND ExpiresAt > SYSUTCDATETIME()
MarkUsed(tbl, key, now) ==
    [i \in 1..Len(tbl) |->
        IF i \in ValidRows(tbl, key, now)
        THEN [tbl[i] EXCEPT !.Used = 1, !.UsedAt = Datetime2_0(now)]
        ELSE tbl[i]]

-----------------------------------------------------------------------------
(* Requests *)

Idle ==
    [srv     |-> "none",
     op      |-> "none",
     path    |-> <<>>,
     key     |-> Absent,
     email   |-> Absent,
     orderId |-> Absent,
     pc      |-> "idle",
     gate    |-> "none",
     res     |-> -1,
     status  |-> 0,
     msg     |-> "",
     out     |-> "",
     url     |-> <<>>,
     exp     |-> NullTime,
     sessionId |-> Absent,
     session |-> "none",
     ret     |-> Absent,
     gone    |-> FALSE,
     method  |-> "",
     origin  |-> "",
     mode    |-> "",
     via     |-> "",
     put     |-> FALSE,
     failed  |-> FALSE,
     client  |-> "",
     password |-> Absent,
     hash    |-> <<>>,
     uid     |-> NoUser]

Answer(rec, status, msg) ==
    [rec EXCEPT !.pc = "done", !.status = status, !.msg = msg]

\* a request takes the lowest slot that is free
FreeSlot(r) ==
    /\ reqs[r].pc = "idle"
    /\ \A q \in 1..(r - 1) : reqs[q].pc # "idle"

\* PRECACHE_URLS, as paths: the install event has put them into the cache
PRECACHE_URLS ==
    {<<>>, <<"Index.html">>, <<"BCC.html">>, <<"map-theme.css">>, <<"styles.css">>,
     <<"images", "Flavour icon.png">>, <<"images", "250916 Cornerstone Logo.png">>}

\* nothing generated yet, the worker installed, no account and no session
OthersInit ==
    /\ rnd = <<>>
    /\ enc = <<>>
    /\ cache = {[path |-> p, status |-> 200] : p \in PRECACHE_URLS}
    /\ online = TRUE
    /\ users = <<>>
    /\ userIdentity = 1
    /\ sessions = [c \in Clients |-> NoUser]

Init ==
    /\ tokens = <<>>
    /\ identity = 1
    /\ dbNow = 0
    /\ advances = 0
    /\ appSkew \in Skews
    /\ dbUp = TRUE
    /\ pool = "null"
    /\ config = DefaultConfig
    /\ reqs = [r \in 1..MaxReqs |-> Idle]
    /\ OthersInit

\* time passes on the database server
Tick ==
    /\ advances < MaxAdvances
    /\ \E d \in ClockSteps : dbNow' = dbNow + d
    /\ advances' = advances + 1
    /\ UNCHANGED <<others, config, tokens, identity, appSkew, dbUp, pool, reqs>>

-----------------------------------------------------------------------------
(* Node server: getPool *)

\* where a Node handler continues once it has its pool
AfterPool(op) ==
    CASE op = "create"   -> "insert"
      [] op = "check"    -> "select"
      [] op = "finalise" -> "update"
      [] op = "stripe"   -> "insert"
      [] op = "register" -> "exists"
      [] op = "login"    -> "find"

\* what a Node handler answers when getPool returned null
NoPoolMsg(op) ==
    IF op \in {"check", "register", "login"}
    THEN "DB connection failed"
    ELSE "DB connection failed."

\* await getPool() with a connected pool returns it at once: the handler goes
\* on to its query without giving way; else sql.connect is started
AwaitPool(rec) ==
    IF pool = "connected"
    THEN [rec EXCEPT !.pc = AfterPool(rec.op)]
    ELSE [rec EXCEPT !.pc = "pool"]

\* a getPool that remembers a failed attempt and does not connect again
GetPoolLatched(r) ==
    /\ reqs[r].srv = "node"
    /\ reqs[r].pc = "pool"
    /\ IF dbUp /\ pool # "failed"
       THEN /\ reqs' = [reqs EXCEPT ![r].pc = AfterPool(reqs[r].op)]
            /\ pool' = "connected"
       ELSE /\ reqs' = [reqs EXCEPT ![r] = Answer(reqs[r], 500, NoPoolMsg(reqs[r].op))]
            /\ pool' = "failed"
    /\ UNCHANGED <<others, config, tokens, identity, dbNow, advances, appSkew, dbUp>>

\* the connection attempt of getPool settles: the new pool is stored and
\* returned, or the catch returns null and the caller answers 500, leaving
\* `pool` as it was
GetPool(r) ==
    /\ reqs[r].srv = "node"
    /\ reqs[r].pc = "pool"
    /\ IF dbUp
       THEN /\ reqs' = [reqs EXCEPT ![r].pc = AfterPool(reqs[r].op)]
            /\ pool' = "connected"
       ELSE /\ reqs' = [reqs EXCEPT ![r] = Answer(reqs[r], 500, NoPoolMsg(reqs[r].op))]
            /\ pool' = pool
    /\ UNCHANGED <<others, config, tokens, identity, dbNow, advances, appSkew, dbUp>>

-----------------------------------------------------------------------------
(* Node server: POST /api/create-token *)

\* create-token with `!email && !orderId`
CreateTokenArriveBothMissing(r, email, orderId) ==
    /\ reqs[r].pc = "idle"
    /\ \A q \in 1..(r - 1) : reqs[q].pc # "idle"
    /\ LET rec == [Idle EXCEPT !.srv = "node", !.op = "create",
                               !.email = email, !.orderId = orderId]
       IN  reqs' = [reqs EXCEPT ![r] =
                IF Falsy(email) /\ Falsy(orderId)
                THEN Answer(rec, 400, "Missing email or orderId.")
                ELSE AwaitPool(rec)]
    /\ UNCHANGED <<others, config, tokens, identity, dbNow, advances, appSkew, dbUp, pool>>

\* the handler up to `await getPool()`
CreateTokenArrive(r, email, orderId) ==
    /\ FreeSlot(r)
    /\ LET rec == [Idle EXCEPT !.srv = "node", !.op = "create",
                               !.email = email, !.orderId = orderId]
       IN  reqs' = [reqs EXCEPT ![r] =
                IF Falsy(email) \/ Falsy(orderId)
                THEN Answer(rec, 400, "Missing email or orderId.")
                ELSE AwaitPool(rec)]
    /\ UNCHANGED <<others, config, tokens, identity, dbNow, advances, appSkew, dbUp, pool>>

\* `${REPORT_BASE_URL}${sep}key=${token}`
ReportUrl(base, tok) ==
    base \o <<IF Contains(base, "?") THEN "&" ELSE "?", "key=", tok>>

\* create-token on a table whose Token column is not UNIQUE
CreateTokenInsertNoUnique(r, tok) ==
    /\ reqs[r].srv = "node"
    /\ reqs[r].op = "create"
    /\ reqs[r].pc = "insert"
    /\ identity <= MaxInserts
    /\ tokens' = Append(tokens, NewRow(identity, tok, reqs[r].email, reqs[r].orderId, dbNow))
    /\ identity' = identity + 1
    /\ reqs' = [reqs EXCEPT ![r] = [Answer(reqs[r], 200, "reportUrl") EXCEPT !.out = tok,
                    !.url = ReportUrl(config.REPORT_BASE_URL, tok)]]
    /\ UNCHANGED <<others, config, dbNow, advances, appSkew, dbUp, pool>>

\* create-token that generates again when the UNIQUE constraint rejects its row
CreateTokenInsertRetry(r, tok) ==
    /\ reqs[r].srv = "node"
    /\ reqs[r].op = "create"
    /\ reqs[r].pc = "insert"
    /\ identity <= MaxInserts
    /\ IF ~dbUp
       THEN /\ reqs' = [reqs EXCEPT ![r] = Answer(reqs[r], 500, "Failed to create token.")]
            /\ UNCHANGED <<tokens, identity>>
       ELSE IF RowsOf(tokens, tok) # {}
       THEN \E again \in Tokens :
            /\ RowsOf(tokens, again) = {}
            /\ tokens' = Append(tokens,
                    NewRow(identity + 1, again, reqs[r].email, reqs[r].orderId, dbNow))
            /\ identity' = identity + 2
            /\ reqs' = [reqs EXCEPT ![r] = [Answer(reqs[r], 200, "reportUrl") EXCEPT !.out = again,
                        !.url = ReportUrl(config.REPORT_BASE_URL, again)]]
       ELSE /\ tokens' = Append(tokens,
                    NewRow(identity, tok, reqs[r].email, reqs[r].orderId, dbNow))
            /\ identity' = identity + 1
            /\ reqs' = [reqs EXCEPT ![r] = [Answer(reqs[r], 200, "reportUrl") EXCEPT !.out = tok,
                        !.url = ReportUrl(config.REPORT_BASE_URL, tok)]]
    /\ UNCHANGED <<others, config, dbNow, advances, appSkew, dbUp, pool>>

\* generateToken, the INSERT and the answer; the catch turns a throw into 500
CreateTokenInsert(r, tok) ==
    /\ reqs[r].srv = "node"
    /\ reqs[r].op = "create"
    /\ reqs[r].pc = "insert"
    /\ identity <= MaxInserts
    /\ IF ~dbUp
       THEN /\ reqs' = [reqs EXCEPT ![r] = Answer(reqs[r], 500, "Failed to create token.")]
            /\ UNCHANGED <<tokens, identity>>
       ELSE IF RowsOf(tokens, tok) # {}
       THEN \* the UNIQUE constraint on Token rejects the row; the identity value is spent
            /\ reqs' = [reqs EXCEPT ![r] = Answer(reqs[r], 500, "Failed to create token.")]
            /\ identity' = identity + 1
            /\ UNCHANGED tokens
       ELSE /\ tokens' = Append(tokens,
                    NewRow(identity, tok, reqs[r].email, reqs[r].orderId, dbNow))
            /\ identity' = identity + 1
            /\ reqs' = [reqs EXCEPT ![r] = [Answer(reqs[r], 200, "reportUrl") EXCEPT !.out = tok,
                        !.url = ReportUrl(config.REPORT_BASE_URL, tok)]]
    /\ UNCHANGED <<others, config, dbNow, advances, appSkew, dbUp, pool>>

-----------------------------------------------------------------------------
(* Node server: GET /api/check-token *)

CheckTokenArrive(r, key) ==
    /\ FreeSlot(r)
    /\ LET rec == [Idle EXCEPT !.srv = "node", !.op = "check", !.key = key]
       IN  reqs' = [reqs EXCEPT ![r] =
                IF Falsy(key)
                THEN Answer(rec, 400, "Missing key.")
                ELSE AwaitPool(rec)]
    /\ UNCHANGED <<others, config, tokens, identity, dbNow, advances, appSkew, dbUp, pool>>

\* check-token with `expiresAt < new Date()`
CheckTokenAnswerStrict(rec, tbl, now) ==
    LET rows == RowsOf(tbl, rec.key) IN
    IF rows = {} THEN Answer(rec, 404, "Invalid token.")
    ELSE LET row == tbl[CHOOSE i \in rows : \A j \in rows : i <= j] IN
         IF row.Used = 1 THEN Answer(rec, 409, "Token already used.")
         ELSE IF row.ExpiresAt < now THEN Answer(rec, 410, "Token expired.")
         ELSE [Answer(rec, 200, "ok") EXCEPT !.exp = row.ExpiresAt]

\* check-token that tests the expiry before it tests Used
CheckTokenAnswerExpiryFirst(rec, tbl, now) ==
    LET rows == RowsOf(tbl, rec.key) IN
    IF rows = {} THEN Answer(rec, 404, "Invalid token.")
    ELSE LET row == tbl[CHOOSE i \in rows : \A j \in rows : i <= j] IN
         IF row.ExpiresAt <= now THEN Answer(rec, 410, "Token expired.")
         ELSE IF row.Used = 1 THEN Answer(rec, 409, "Token already used.")
         ELSE [Answer(rec, 200, "ok") EXCEPT !.exp = row.ExpiresAt]

\* the answer of check-token for the recordset the SELECT TOP 1 returned,
\* compared against the clock of the Node process
CheckTokenAnswer(rec, tbl, now) ==
    LET rows == RowsOf(tbl, rec.key) IN
    IF rows = {} THEN Answer(rec, 404, "Invalid token.")
    ELSE LET row == tbl[CHOOSE i \in rows : \A j \in rows : i <= j] IN
         IF row.Used = 1 THEN Answer(rec, 409, "Token already used.")
         ELSE IF row.ExpiresAt <= now THEN Answer(rec, 410, "Token expired.")
         ELSE [Answer(rec, 200, "ok") EXCEPT !.exp = row.ExpiresAt]

\* check-token without its try/catch: a query that throws leaves the request
\* without an answer
CheckTokenSelectNoCatch(r) ==
    /\ reqs[r].srv = "node"
    /\ reqs[r].pc = "select"
    /\ reqs' = [reqs EXCEPT ![r] =
            IF ~dbUp
            THEN [reqs[r] EXCEPT !.pc = "thrown"]
            ELSE CheckTokenAnswer(reqs[r], tokens, AppNow)]
    /\ UNCHANGED <<others, config, tokens, identity, dbNow, advances, appSkew, dbUp, pool>>

CheckTokenSelect(r) ==
    /\ reqs[r].srv = "node"
    /\ reqs[r].pc = "select"
    /\ reqs' = [reqs EXCEPT ![r] =
            IF ~dbUp
            THEN Answer(reqs[r], 500, "Failed to check token.")
            ELSE CheckTokenAnswer(reqs[r], tokens, AppNow)]
    /\ UNCHANGED <<others, config, tokens, identity, dbNow, advances, appSkew, dbUp, pool>>

-----------------------------------------------------------------------------
(* Node server: POST /api/finalise-token *)

FinaliseTokenArrive(r, key) ==
    /\ FreeSlot(r)
    /\ LET rec == [Idle EXCEPT !.srv = "node", !.op = "finalise", !.key = key]
       IN  reqs' = [reqs EXCEPT ![r] =
                IF Falsy(key)
                THEN Answer(rec, 400, "Missing key.")
                ELSE AwaitPool(rec)]
    /\ UNCHANGED <<others, config, tokens, identity, dbNow, advances, appSkew, dbUp, pool>>

\* a finalise-token that counts the rows of the key, used or not, as affected
FinaliseTokenUpdateIdempotent(r) ==
    /\ reqs[r].srv = "node"
    /\ reqs[r].pc = "update"
    /\ IF ~dbUp
       THEN /\ reqs' = [reqs EXCEPT ![r] = Answer(reqs[r], 500, "Failed to finalise token.")]
            /\ UNCHANGED tokens
       ELSE /\ tokens' = MarkUsed(tokens, reqs[r].key, dbNow)
            /\ reqs' = [reqs EXCEPT ![r].pc = "respond",
                            ![r].res = Cardinality({i \in RowsOf(tokens, reqs[r].key) :
                                                        tokens[i].ExpiresAt > dbNow})]
    /\ UNCHANGED <<others, config, identity, dbNow, advances, appSkew, dbUp, pool>>

\* the conditional UPDATE runs in the database as one statement; the handler
\* is left holding result.rowsAffected[0]
FinaliseTokenUpdate(r) ==
    /\ reqs[r].srv = "node"
    /\ reqs[r].pc = "update"
    /\ IF ~dbUp
       THEN /\ reqs' = [reqs EXCEPT ![r] = Answer(reqs[r], 500, "Failed to finalise token.")]
            /\ UNCHANGED tokens
       ELSE /\ tokens' = MarkUsed(tokens, reqs[r].key, dbNow)
            /\ reqs' = [reqs EXCEPT ![r].pc = "respond",
                            ![r].res = Cardinality(ValidRows(tokens, reqs[r].key, dbNow))]
    /\ UNCHANGED <<others, config, identity, dbNow, advances, appSkew, dbUp, pool>>

\* finalise-token that tests `!result.rowsAffected` alone
FinaliseTokenAnswerNoCount(rec) ==
    IF rec.res < 0
    THEN Answer(rec, 400, "This report link is invalid, expired, or already used.")
    ELSE Answer(rec, 200, "OK")

\* the answer of finalise-token for a rowsAffected count
FinaliseTokenAnswer(rec) ==
    IF rec.res = 0
    THEN Answer(rec, 400, "This report link is invalid, expired, or already used.")
    ELSE Answer(rec, 200, "OK")

FinaliseTokenRespond(r) ==
    /\ reqs[r].srv = "node"
    /\ reqs[r].pc = "respond"
    /\ reqs' = [reqs EXCEPT ![r] = FinaliseTokenAnswer(reqs[r])]
    /\ UNCHANGED <<others, config, tokens, identity, dbNow, advances, appSkew, dbUp, pool>>

\* the client of a finalise-token request goes away while the handler waits;
\* the handler listens for no close event and runs on, and what it sends
\* reaches nobody
ClientGone(r) ==
    /\ reqs[r].srv = "node"
    /\ reqs[r].op = "finalise"
    /\ reqs[r].pc \in {"pool", "update", "respond"}
    /\ ~reqs[r].gone
    /\ reqs' = [reqs EXCEPT ![r].gone = TRUE]
    /\ UNCHANGED <<others, config, tokens, identity, dbNow, advances, appSkew, dbUp, pool>>

-----------------------------------------------------------------------------
(* Node server: GET /api/stripe/success *)

\* a string as the sequence of its characters
BccHtml == <<"B", "C", "C", ".", "h", "t", "m", "l">>

\* [A-Za-z0-9._-], on the characters used here
WordChar(c) == c \in {"B", "C", "m", "h", "t", "l", ".", "_", "-", "1"}

\* /^[A-Za-z0-9._-]+\.html$/
HtmlName(v) ==
    /\ Len(v) >= 6
    /\ \A i \in 1..Len(v) : WordChar(v[i])
    /\ SubSeq(v, Len(v) - 4, Len(v)) = <<".", "h", "t", "m", "l">>

\* value.replace(/^\/+/, '')
RECURSIVE TrimStart(_, _)
TrimStart(v, c) ==
    IF v # <<>> /\ v[1] = c THEN TrimStart(Tail(v), c) ELSE v

\* a query parameter given twice or with brackets: qs parses it to an array or
\* an object, for which `typeof value !== 'string'`
NotString == "<array>"

\* sanitizeReturnPath with /[A-Za-z0-9._-]+\.html$/, the pattern without its `^`
sanitizeReturnPathUnanchored(value) ==
    IF value = Absent \/ value = NotString THEN BccHtml
    ELSE IF value = <<>> THEN BccHtml
    ELSE IF \E i \in 1..(Len(value) - 2) :
                value[i] = ":" /\ value[i + 1] = "/" /\ value[i + 2] = "/"
    THEN BccHtml
    ELSE IF ~(\E k \in 1..Len(value) : HtmlName(SubSeq(value, k, Len(value)))) THEN BccHtml
    ELSE TrimStart(value, "/")

\* sanitizeReturnPath(value, fallback = 'BCC.html')
sanitizeReturnPath(value) ==
    IF value = Absent \/ value = NotString THEN BccHtml
    ELSE IF value = <<>> THEN BccHtml
    ELSE IF \E i \in 1..(Len(value) - 2) :
                value[i] = ":" /\ value[i + 1] = "/" /\ value[i + 2] = "/"
    THEN BccHtml
    ELSE IF ~HtmlName(TrimStart(value, "/")) THEN BccHtml
    ELSE TrimStart(value, "/")

\* getBaseUrl(req), for a request that came in over https for the host
getBaseUrl ==
    IF config.APP_BASE_URL # <<>> THEN TrimEnd(config.APP_BASE_URL, "/") ELSE Origin

\* the handler up to `await stripe.checkout.sessions.retrieve(sessionId)`
StripeSuccessArrive(r, sessionId, ret) ==
    /\ FreeSlot(r)
    /\ LET rec == [Idle EXCEPT !.srv = "node", !.op = "stripe",
                               !.sessionId = sessionId, !.ret = ret]
       IN  reqs' = [reqs EXCEPT ![r] =
                IF ~config.stripe
                THEN Answer(rec, 500, "Stripe is not configured. Missing STRIPE_SECRET_KEY.")
                ELSE IF Falsy(sessionId)
                THEN Answer(rec, 400, "Missing session_id.")
                ELSE [rec EXCEPT !.pc = "retrieve"]]
    /\ UNCHANGED <<others, config, tokens, identity, dbNow, advances, appSkew, dbUp, pool>>

\* what the provider can answer a retrieve with: it throws, or gives nothing,
\* or a session that is not paid, or a paid one with or without an email
ProviderAnswers == {"throws", "null", "unpaid", "paid", "paidNoEmail"}

\* a handler that takes any session for a paid one
StripeSuccessRetrieveAnySession(r, answer) ==
    /\ reqs[r].srv = "node"
    /\ reqs[r].pc = "retrieve"
    /\ LET rec == [reqs[r] EXCEPT !.session = answer] IN
       reqs' = [reqs EXCEPT ![r] =
            IF answer = "throws"
            THEN Answer(rec, 500, "Failed to finalise payment.")
            ELSE AwaitPool([rec EXCEPT
                    !.email = IF answer = "paid" THEN "a@b.com" ELSE Absent,
                    !.orderId = rec.sessionId])]
    /\ UNCHANGED <<others, config, tokens, identity, dbNow, advances, appSkew, dbUp, pool>>

\* the provider's answer arrives: `!session || session.payment_status !== 'paid'`
\* redirects to the return page; a paid session goes on to getPool
StripeSuccessRetrieve(r, answer) ==
    /\ reqs[r].srv = "node"
    /\ reqs[r].pc = "retrieve"
    /\ LET rec == [reqs[r] EXCEPT !.session = answer] IN
       reqs' = [reqs EXCEPT ![r] =
            IF answer = "throws"
            THEN Answer(rec, 500, "Failed to finalise payment.")
            ELSE IF answer \in {"null", "unpaid"}
            THEN [Answer(rec, 303, "redirect") EXCEPT
                    !.url = getBaseUrl \o <<"/">> \o sanitizeReturnPath(rec.ret)]
            ELSE AwaitPool([rec EXCEPT
                    !.email = IF answer = "paid" THEN "a@b.com" ELSE Absent,
                    !.orderId = rec.sessionId])]
    /\ UNCHANGED <<others, config, tokens, identity, dbNow, advances, appSkew, dbUp, pool>>

\* `${baseUrl}/${returnPath}${sep}key=${token}`
SuccessUrl(ret, tok) ==
    getBaseUrl \o <<"/">> \o sanitizeReturnPath(ret)
        \o <<IF Contains(sanitizeReturnPath(ret), "?") THEN "&" ELSE "?", "key=", tok>>

\* generateToken, the INSERT with PaymentId = session.id, and the redirect
StripeSuccessInsert(r, tok) ==
    /\ reqs[r].srv = "node"
    /\ reqs[r].op = "stripe"
    /\ reqs[r].pc = "insert"
    /\ identity <= MaxInserts
    /\ IF ~dbUp
       THEN /\ reqs' = [reqs EXCEPT ![r] = Answer(reqs[r], 500, "Failed to finalise payment.")]
            /\ UNCHANGED <<tokens, identity>>
       ELSE IF RowsOf(tokens, tok) # {}
       THEN /\ reqs' = [reqs EXCEPT ![r] = Answer(reqs[r], 500, "Failed to finalise payment.")]
            /\ identity' = identity + 1
            /\ UNCHANGED tokens
       ELSE /\ tokens' = Append(tokens,
                    NewRow(identity, tok, reqs[r].email, reqs[r].orderId, dbNow))
            /\ identity' = identity + 1
            /\ reqs' = [reqs EXCEPT ![r] = [Answer(reqs[r], 303, "redirect") EXCEPT
                            !.out = tok, !.url = SuccessUrl(reqs[r].ret, tok)]]
    /\ UNCHANGED <<others, config, dbNow, advances, appSkew, dbUp, pool>>

-----------------------------------------------------------------------------
(* Node server: express.static, mounted after the routes, with no guard *)

ReportPage == <<"BCC.html">>

StaticFiles == {ReportPage, <<"Images", "logo.png">>}

StaticGet(r, path, key) ==
    /\ FreeSlot(r)
    /\ LET rec == [Idle EXCEPT !.srv = "node", !.op = "static", !.path = path, !.key = key]
       IN  reqs' = [reqs EXCEPT ![r] =
                IF path \in StaticFiles
                THEN Answer(rec, 200, "file")
                ELSE Answer(rec, 404, "Cannot GET")]
    /\ UNCHANGED <<others, config, tokens, identity, dbNow, advances, appSkew, dbUp, pool>>

-----------------------------------------------------------------------------
(* ASP.NET server: gatekeeper middleware and what it guards *)

\* the case folding of PathString comparisons, on the segments used here
ToLower(seg) ==
    CASE seg = "Images" -> "images"
      [] seg = "BCC.html" -> "bcc.html"
      [] OTHER -> seg

\* a comparison of segments that minds case
StartsWithSegmentsOrdinal(path, prefix) ==
    /\ Len(path) >= Len(prefix)
    /\ \A i \in 1..Len(prefix) : path[i] = prefix[i]

\* PathString.StartsWithSegments: whole segments, ignoring case
StartsWithSegments(path, prefix) ==
    /\ Len(path) >= Len(prefix)
    /\ \A i \in 1..Len(prefix) : ToLower(path[i]) = ToLower(prefix[i])

CreateTokenPath == <<"api", "create-token">>

FinaliseTokenPath == <<"api", "finalise-token">>

AllowedApi == {CreateTokenPath, FinaliseTokenPath}

AllowedStatic == {<<"js">>, <<"css">>, <<"images">>, <<"lib">>, <<"favicon.ico">>}

AllowListed(path) ==
    \E prefix \in AllowedApi \cup AllowedStatic : StartsWithSegments(path, prefix)

\* the rest of the pipeline up to its first await: static files, then the
\* endpoints with their argument checks
GateNext(rec) ==
    IF StartsWithSegments(rec.path, CreateTokenPath)
    THEN IF IsNullOrWhiteSpace(rec.email) \/ IsNullOrWhiteSpace(rec.orderId)
         THEN Answer(rec, 400, "Missing email or order id.")
         ELSE [rec EXCEPT !.pc = "insert"]
    ELSE IF StartsWithSegments(rec.path, FinaliseTokenPath)
    THEN IF IsNullOrWhiteSpace(rec.key)
         THEN Answer(rec, 400, "Missing key.")
         ELSE [rec EXCEPT !.pc = "update"]
    ELSE IF rec.path \in StaticFiles
    THEN Answer(rec, 200, "file")
    ELSE Answer(rec, 404, "")

GateOp(path) ==
    IF StartsWithSegments(path, CreateTokenPath) THEN "create"
    ELSE IF StartsWithSegments(path, FinaliseTokenPath) THEN "finalise"
    ELSE "static"

\* the middleware up to `await conn.OpenAsync()`
GateArrive(r, path, key, email, orderId) ==
    /\ FreeSlot(r)
    /\ LET rec == [Idle EXCEPT !.srv = "cs", !.op = GateOp(path), !.path = path,
                               !.key = key, !.email = email, !.orderId = orderId]
       IN  reqs' = [reqs EXCEPT ![r] =
                IF AllowListed(path)
                THEN GateNext([rec EXCEPT !.gate = "allow"])
                ELSE IF IsNullOrWhiteSpace(key)
                THEN Answer([rec EXCEPT !.gate = "missing"], 403,
                            "Access denied. Valid report link required.")
                ELSE [rec EXCEPT !.gate = "checking", !.pc = "gate"]]
    /\ UNCHANGED <<others, config, tokens, identity, dbNow, advances, appSkew, dbUp, pool>>

\* a middleware that lets a count of 0 through
GateDecideAnyCount(rec, count) ==
    IF count >= 0
    THEN GateNext([rec EXCEPT !.gate = "valid", !.res = count])
    ELSE Answer([rec EXCEPT !.gate = "invalid", !.res = count], 403,
                "This link is invalid, expired, or already used.")

\* what the middleware does with the COUNT(*) it read
GateDecide(rec, count) ==
    IF count > 0
    THEN GateNext([rec EXCEPT !.gate = "valid", !.res = count])
    ELSE Answer([rec EXCEPT !.gate = "invalid", !.res = count], 403,
                "This link is invalid, expired, or already used.")

\* a gate that spends the token it lets through
GateCheckConsuming(r) ==
    /\ reqs[r].srv = "cs"
    /\ reqs[r].pc = "gate"
    /\ reqs' = [reqs EXCEPT ![r] =
            GateDecide(reqs[r], Cardinality(ValidRows(tokens, reqs[r].key, dbNow)))]
    /\ tokens' = MarkUsed(tokens, reqs[r].key, dbNow)
    /\ UNCHANGED <<others, config, identity, dbNow, advances, appSkew, dbUp, pool>>

\* a gate that remembers the keys it let through and asks the table about the others
GateCheckCached(r) ==
    /\ reqs[r].srv = "cs"
    /\ reqs[r].pc = "gate"
    /\ reqs' = [reqs EXCEPT ![r] =
            IF \E q \in Reqs : reqs[q].gate = "valid" /\ reqs[q].key = reqs[r].key
            THEN GateDecide(reqs[r], 1)
            ELSE GateDecide(reqs[r], Cardinality(ValidRows(tokens, reqs[r].key, dbNow)))]
    /\ UNCHANGED <<others, config, tokens, identity, dbNow, advances, appSkew, dbUp, pool>>

\* SELECT COUNT(*) .. WHERE Token = @Token AND Used = 0 AND ExpiresAt > SYSUTCDATETIME();
\* nothing catches a failing connection, so the host answers 500
GateCheck(r) ==
    /\ reqs[r].srv = "cs"
    /\ reqs[r].pc = "gate"
    /\ reqs' = [reqs EXCEPT ![r] =
            IF ~dbUp
            THEN Answer([reqs[r] EXCEPT !.gate = "error"], 500, "")
            ELSE GateDecide(reqs[r], Cardinality(ValidRows(tokens, reqs[r].key, dbNow)))]
    /\ UNCHANGED <<others, config, tokens, identity, dbNow, advances, appSkew, dbUp, pool>>

\* reportBaseUrl.TrimEnd('/') + (reportBaseUrl.Contains("?") ? "&" : "?") + "key=" + token
CsReportUrl(base, tok) ==
    TrimEnd(base, "/") \o <<IF Contains(base, "?") THEN "&" ELSE "?", "key=", tok>>

\* MapPost /api/create-token after its argument check
CsCreateTokenInsert(r, tok) ==
    /\ reqs[r].srv = "cs"
    /\ reqs[r].pc = "insert"
    /\ identity <= MaxInserts
    /\ IF ~dbUp
       THEN /\ reqs' = [reqs EXCEPT ![r] = Answer(reqs[r], 500, "")]
            /\ UNCHANGED <<tokens, identity>>
       ELSE IF RowsOf(tokens, tok) # {}
       THEN /\ reqs' = [reqs EXCEPT ![r] = Answer(reqs[r], 500, "")]
            /\ identity' = identity + 1
            /\ UNCHANGED tokens
       ELSE /\ tokens' = Append(tokens,
                    NewRow(identity, tok, reqs[r].email, reqs[r].orderId, dbNow))
            /\ identity' = identity + 1
            /\ reqs' = [reqs EXCEPT ![r] = [Answer(reqs[r], 200, "reportUrl") EXCEPT !.out = tok,
                        !.url = CsReportUrl(config.reportBaseUrl, tok)]]
    /\ UNCHANGED <<others, config, dbNow, advances, appSkew, dbUp, pool>>

\* the answer of MapPost /api/finalise-token for a rowsAffected count
CsFinaliseTokenAnswer(rec) ==
    IF rec.res = 0
    THEN Answer(rec, 400, "This report link is invalid, expired, or already used.")
    ELSE Answer(rec, 200, "OK")

\* MapPost /api/finalise-token after its argument check
CsFinaliseTokenUpdate(r) ==
    /\ reqs[r].srv = "cs"
    /\ reqs[r].pc = "update"
    /\ IF ~dbUp
       THEN /\ reqs' = [reqs EXCEPT ![r] = Answer(reqs[r], 500, "")]
            /\ UNCHANGED tokens
       ELSE /\ tokens' = MarkUsed(tokens, reqs[r].key, dbNow)
            /\ reqs' = [reqs EXCEPT ![r] = CsFinaliseTokenAnswer(
                    [reqs[r] EXCEPT !.res = Cardinality(ValidRows(tokens, reqs[r].key, dbNow))])]
    /\ UNCHANGED <<others, config, identity, dbNow, advances, appSkew, dbUp, pool>>

-----------------------------------------------------------------------------
(* Program.cs: the first ASP.NET program, create-token alone, no gate *)

\* $"https://cornerstoneplus-...azurewebsites.net/report?key={token}"
ProgramReportUrl(tok) == Origin \o <<"/", "report", "?", "key=", tok>>

\* MapPost /api/create-token up to `await conn.OpenAsync()`
ProgramCreateTokenArrive(r, email, orderId) ==
    /\ FreeSlot(r)
    /\ LET rec == [Idle EXCEPT !.srv = "program", !.op = "create", !.path = CreateTokenPath,
                               !.email = email, !.orderId = orderId]
       IN  reqs' = [reqs EXCEPT ![r] =
                IF IsNullOrWhiteSpace(email) \/ IsNullOrWhiteSpace(orderId)
                THEN Answer(rec, 400, "Missing email or order id.")
                ELSE [rec EXCEPT !.pc = "insert"]]
    /\ UNCHANGED <<others, config, tokens, identity, dbNow, advances, appSkew, dbUp, pool>>

\* GenerateToken, the INSERT and the answer; nothing catches a throw
ProgramCreateTokenInsert(r, tok) ==
    /\ reqs[r].srv = "program"
    /\ reqs[r].pc = "insert"
    /\ identity <= MaxInserts
    /\ IF ~dbUp
       THEN /\ reqs' = [reqs EXCEPT ![r] = Answer(reqs[r], 500, "")]
            /\ UNCHANGED <<tokens, identity>>
       ELSE IF RowsOf(tokens, tok) # {}
       THEN /\ reqs' = [reqs EXCEPT ![r] = Answer(reqs[r], 500, "")]
            /\ identity' = identity + 1
            /\ UNCHANGED tokens
       ELSE /\ tokens' = Append(tokens,
                    NewRow(identity, tok, reqs[r].email, reqs[r].orderId, dbNow))
            /\ identity' = identity + 1
            /\ reqs' = [reqs EXCEPT ![r] = [Answer(reqs[r], 200, "reportUrl") EXCEPT !.out = tok,
                        !.url = ProgramReportUrl(tok)]]
    /\ UNCHANGED <<others, config, dbNow, advances, appSkew, dbUp, pool>>

-----------------------------------------------------------------------------
(* generateToken of the Node server and GenerateToken of the ASP.NET server *)

\* the base64 alphabet of Buffer.toString('base64') and Convert.ToBase64String
Alphabet ==
    <<"A", "B", "C", "D", "E", "F", "G", "H", "I", "J", "K", "L", "M",
      "N", "O", "P", "Q", "R", "S", "T", "U", "V", "W", "X", "Y", "Z",
      "a", "b", "c", "d", "e", "f", "g", "h", "i", "j", "k", "l", "m",
      "n", "o", "p", "q", "r", "s", "t", "u", "v", "w", "x", "y", "z",
      "0", "1", "2", "3", "4", "5", "6", "7", "8", "9", "+", "/">>

\* the character for a group of six bits
Sextet(n) == Alphabet[n + 1]

\* base64 of a byte string: three bytes give four characters, and a last
\* group of one or two bytes is filled up with "="
RECURSIVE ToBase64(_)
ToBase64(bytes) ==
    IF bytes = <<>> THEN <<>>
    ELSE IF Len(bytes) = 1
    THEN <<Sextet(bytes[1] \div 4), Sextet((bytes[1] % 4) * 16), "=", "=">>
    ELSE IF Len(bytes) = 2
    THEN <<Sextet(bytes[1] \div 4),
           Sextet((bytes[1] % 4) * 16 + bytes[2] \div 16),
           Sextet((bytes[2] % 16) * 4), "=">>
    ELSE <<Sextet(bytes[1] \div 4),
           Sextet((bytes[1] % 4) * 16 + bytes[2] \div 16),
           Sextet((bytes[2] % 16) * 4 + bytes[3] \div 64),
           Sextet(bytes[3] % 64)>>
         \o ToBase64(SubSeq(bytes, 4, Len(bytes)))

\* s.replace(/c/g, d) and s.Replace(c, d), for one character
Replace(s, c, d) == [i \in 1..Len(s) |-> IF s[i] = c THEN d ELSE s[i]]

\* a generateToken that leaves "+" as it is
generateTokenPlus(bytes) ==
    TrimEnd(Replace(ToBase64(bytes), "/", "_"), "=")

\* buf.toString('base64').replace(/\+/g, '-').replace(/\//g, '_').replace(/=+$/g, '')
generateToken(bytes) ==
    TrimEnd(Replace(Replace(ToBase64(bytes), "+", "-"), "/", "_"), "=")

\* Convert.ToBase64String(bytes).Replace("+", "-").Replace("/", "_").TrimEnd('=')
GenerateToken(bytes) ==
    TrimEnd(Replace(Replace(ToBase64(bytes), "+", "-"), "/", "_"), "=")

\* the random source is read: crypto.randomBytes, RandomNumberGenerator.Fill
RandomBytes(bytes) ==
    /\ Len(rnd) < MaxDraws
    /\ rnd' = Append(rnd, bytes)
    /\ enc' = Append(enc, [node |-> <<>>, cs |-> <<>>])
    /\ UNCHANGED <<worker, accounts, config, tokens, identity, dbNow, advances, appSkew,
                   dbUp, pool, reqs>>

\* the Node server encodes the i-th draw
NodeGenerateToken(i) ==
    /\ i \in 1..Len(rnd)
    /\ enc[i].node = <<>>
    /\ enc' = [enc EXCEPT ![i].node = generateToken(rnd[i])]
    /\ UNCHANGED <<rnd, worker, accounts, config, tokens, identity, dbNow, advances,
                   appSkew, dbUp, pool, reqs>>

\* the ASP.NET server encodes the i-th draw
CsGenerateToken(i) ==
    /\ i \in 1..Len(rnd)
    /\ enc[i].cs = <<>>
    /\ enc' = [enc EXCEPT ![i].cs = GenerateToken(rnd[i])]
    /\ UNCHANGED <<rnd, worker, accounts, config, tokens, identity, dbNow, advances,
                   appSkew, dbUp, pool, reqs>>

-----------------------------------------------------------------------------
(* The service worker of the pages: its fetch listener *)

\* url.pathname.startsWith('/api/'), on a path given as its segments
SwApiPath(path) == Len(path) >= 2 /\ path[1] = "api"

\* the file names among the segments used here that end in .html
HtmlNames == {"Index.html", "BCC.html", "m.html", "gone.html"}

\* url.pathname.endsWith('.html')
EndsWithHtml(path) == path # <<>> /\ path[Len(path)] \in HtmlNames

\* what the server has under a path; Express matches its routes without
\* regard to case
Served ==
    PRECACHE_URLS \cup {<<"m.html">>, <<"app.js">>, <<"api", "check-token">>,
                        <<"API", "check-token">>}

ServerStatus(path) == IF path \in Served THEN 200 ELSE 404

\* caches.match(request)
CacheMatch(path) == {e \in cache : e.path = path}

\* cache.put(request, response): the entry of the URL is written over
CachePut(path, status) ==
    {e \in cache : e.path # path} \cup {[path |-> path, status |-> status]}

\* the listener returns without respondWith: the browser does the request itself
ByBrowser(rec) == [rec EXCEPT !.pc = "done", !.via = "browser"]

\* a listener without the test of /api/
SwFetchNoApiTest(r, method, origin, path, mode) ==
    /\ FreeSlot(r)
    /\ LET rec == [Idle EXCEPT !.srv = "sw", !.op = "fetch", !.method = method,
                               !.origin = origin, !.path = path, !.mode = mode]
       IN  reqs' = [reqs EXCEPT ![r] =
                IF method # "GET" THEN ByBrowser(rec)
                ELSE IF origin # "same" THEN ByBrowser(rec)
                ELSE IF mode = "navigate" \/ EndsWithHtml(path)
                THEN [rec EXCEPT !.pc = "navFetch"]
                ELSE [rec EXCEPT !.pc = "match"]]
    /\ UNCHANGED <<random, worker, accounts, config, tokens, identity, dbNow, advances,
                   appSkew, dbUp, pool>>

\* the fetch listener up to its respondWith
SwFetch(r, method, origin, path, mode) ==
    /\ FreeSlot(r)
    /\ LET rec == [Idle EXCEPT !.srv = "sw", !.op = "fetch", !.method = method,
                               !.origin = origin, !.path = path, !.mode = mode]
       IN  reqs' = [reqs EXCEPT ![r] =
                IF method # "GET" THEN ByBrowser(rec)
                ELSE IF origin # "same" THEN ByBrowser(rec)
                ELSE IF SwApiPath(path) THEN ByBrowser(rec)
                ELSE IF mode = "navigate" \/ EndsWithHtml(path)
                THEN [rec EXCEPT !.pc = "navFetch"]
                ELSE [rec EXCEPT !.pc = "match"]]
    /\ UNCHANGED <<random, worker, accounts, config, tokens, identity, dbNow, advances,
                   appSkew, dbUp, pool>>

\* network first: fetch(request) settles; a response of any status is put
\* into the cache and returned, a failure goes on to the cache
SwNavFetch(r) ==
    /\ reqs[r].srv = "sw"
    /\ reqs[r].pc = "navFetch"
    /\ IF online
       THEN /\ cache' = CachePut(reqs[r].path, ServerStatus(reqs[r].path))
            /\ reqs' = [reqs EXCEPT ![r] = [reqs[r] EXCEPT
                            !.pc = "done", !.via = "network", !.put = TRUE,
                            !.status = ServerStatus(reqs[r].path)]]
       ELSE /\ cache' = cache
            /\ reqs' = [reqs EXCEPT ![r].pc = "fallback", ![r].failed = TRUE]
    /\ UNCHANGED <<random, accounts, online, config, tokens, identity, dbNow, advances,
                   appSkew, dbUp, pool>>

\* caches.match(request).then(match => match || caches.match('/Index.html'))
SwFallback(r) ==
    /\ reqs[r].srv = "sw"
    /\ reqs[r].pc = "fallback"
    /\ reqs' = [reqs EXCEPT ![r] =
            IF CacheMatch(reqs[r].path) # {}
            THEN [reqs[r] EXCEPT !.pc = "done", !.via = "cache",
                    !.status = (CHOOSE e \in CacheMatch(reqs[r].path) : TRUE).status]
            ELSE IF CacheMatch(<<"Index.html">>) # {}
            THEN [reqs[r] EXCEPT !.pc = "done", !.via = "index",
                    !.status = (CHOOSE e \in CacheMatch(<<"Index.html">>) : TRUE).status]
            ELSE [reqs[r] EXCEPT !.pc = "done", !.via = "nothing"]]
    /\ UNCHANGED <<random, worker, accounts, config, tokens, identity, dbNow, advances,
                   appSkew, dbUp, pool>>

\* cache first: caches.match(request) settles
SwMatch(r) ==
    /\ reqs[r].srv = "sw"
    /\ reqs[r].pc = "match"
    /\ reqs' = [reqs EXCEPT ![r] =
            IF CacheMatch(reqs[r].path) # {}
            THEN [reqs[r] EXCEPT !.pc = "done", !.via = "cache",
                    !.status = (CHOOSE e \in CacheMatch(reqs[r].path) : TRUE).status]
            ELSE [reqs[r] EXCEPT !.pc = "assetFetch"]]
    /\ UNCHANGED <<random, worker, accounts, config, tokens, identity, dbNow, advances,
                   appSkew, dbUp, pool>>

\* the fetch of an asset the cache did not have settles: a 200 is put into
\* the cache; a failure answers with `cached`, which is undefined
SwAssetFetch(r) ==
    /\ reqs[r].srv = "sw"
    /\ reqs[r].pc = "assetFetch"
    /\ IF online
       THEN /\ cache' = IF ServerStatus(reqs[r].path) = 200
                        THEN CachePut(reqs[r].path, 200)
                        ELSE cache
            /\ reqs' = [reqs EXCEPT ![r] = [reqs[r] EXCEPT
                            !.pc = "done", !.via = "network",
                            !.put = (ServerStatus(reqs[r].path) = 200),
                            !.status = ServerStatus(reqs[r].path)]]
       ELSE /\ cache' = cache
            /\ reqs' = [reqs EXCEPT ![r] = [reqs[r] EXCEPT
                            !.pc = "done", !.via = "nothing", !.failed = TRUE]]
    /\ UNCHANGED <<random, accounts, online, config, tokens, identity, dbNow, advances,
                   appSkew, dbUp, pool>>

\* the browser loses the network and gets it back
NetDown ==
    /\ online
    /\ online' = FALSE
    /\ UNCHANGED <<random, accounts, cache, config, tokens, identity, dbNow, advances,
                   appSkew, dbUp, pool, reqs>>

NetUp ==
    /\ ~online
    /\ online' = TRUE
    /\ UNCHANGED <<random, accounts, cache, config, tokens, identity, dbNow, advances,
                   appSkew, dbUp, pool, reqs>>

-----------------------------------------------------------------------------
(* Node server: /api/auth/register, /api/auth/login, /api/auth/logout *)

\* bcrypt.hash(password, 10) and bcrypt.compare(password, hash)
Hash(password) == <<"$2b$10$", password>>

Compare(password, hash) == hash = Hash(password)

\* SELECT .. FROM users WHERE email = @email
UsersOf(email) == {i \in 1..Len(users) : users[i].email = email}

\* the handler of register up to `await getPool()`
RegisterArrive(r, client, first_name, last_name, email, password) ==
    /\ FreeSlot(r)
    /\ LET rec == [Idle EXCEPT !.srv = "node", !.op = "register", !.client = client,
                               !.email = email, !.password = password]
       IN  reqs' = [reqs EXCEPT ![r] =
                IF Falsy(first_name) \/ Falsy(last_name) \/ Falsy(email) \/ Falsy(password)
                THEN Answer(rec, 400, "Missing required fields")
                ELSE AwaitPool(rec)]
    /\ UNCHANGED <<others, config, tokens, identity, dbNow, advances, appSkew, dbUp, pool>>

\* SELECT TOP 1 id FROM users WHERE email = @email
RegisterExists(r) ==
    /\ reqs[r].srv = "node"
    /\ reqs[r].pc = "exists"
    /\ reqs' = [reqs EXCEPT ![r] =
            IF ~dbUp THEN Answer(reqs[r], 500, "Server error")
            ELSE IF UsersOf(reqs[r].email) # {}
            THEN Answer(reqs[r], 400, "Email already registered")
            ELSE [reqs[r] EXCEPT !.pc = "hash"]]
    /\ UNCHANGED <<others, config, tokens, identity, dbNow, advances, appSkew, dbUp, pool>>

\* await bcrypt.hash(password, 10)
RegisterHash(r) ==
    /\ reqs[r].srv = "node"
    /\ reqs[r].pc = "hash"
    /\ reqs' = [reqs EXCEPT ![r].pc = "insertUser", ![r].hash = Hash(reqs[r].password)]
    /\ UNCHANGED <<others, config, tokens, identity, dbNow, advances, appSkew, dbUp, pool>>

\* INSERT INTO users .. OUTPUT INSERTED.id ..; then req.session.userId = user.id.
\* Email is UNIQUE: a row another request has put in since the SELECT makes
\* the INSERT throw
RegisterInsert(r) ==
    /\ reqs[r].srv = "node"
    /\ reqs[r].pc = "insertUser"
    /\ IF ~dbUp
       THEN /\ reqs' = [reqs EXCEPT ![r] = Answer(reqs[r], 500, "Server error")]
            /\ UNCHANGED <<users, userIdentity, sessions>>
       ELSE IF UsersOf(reqs[r].email) # {}
       THEN /\ reqs' = [reqs EXCEPT ![r] = Answer(reqs[r], 500, "Server error")]
            /\ userIdentity' = userIdentity + 1
            /\ UNCHANGED <<users, sessions>>
       ELSE /\ users' = Append(users, [id |-> userIdentity, email |-> reqs[r].email,
                                       password_hash |-> reqs[r].hash])
            /\ userIdentity' = userIdentity + 1
            /\ sessions' = [sessions EXCEPT ![reqs[r].client] = userIdentity]
            /\ reqs' = [reqs EXCEPT ![r] = [Answer(reqs[r], 200, "ok") EXCEPT
                            !.uid = userIdentity]]
    /\ UNCHANGED <<random, worker, config, tokens, identity, dbNow, advances, appSkew,
                   dbUp, pool>>

\* the handler of login up to `await getPool()`
LoginArrive(r, client, email, password) ==
    /\ FreeSlot(r)
    /\ LET rec == [Idle EXCEPT !.srv = "node", !.op = "login", !.client = client,
                               !.email = email, !.password = password]
       IN  reqs' = [reqs EXCEPT ![r] =
                IF Falsy(email) \/ Falsy(password)
                THEN Answer(rec, 400, "Email and password required")
                ELSE AwaitPool(rec)]
    /\ UNCHANGED <<others, config, tokens, identity, dbNow, advances, appSkew, dbUp, pool>>

\* SELECT TOP 1 id, .., password_hash FROM users WHERE email = @email
LoginFind(r) ==
    /\ reqs[r].srv = "node"
    /\ reqs[r].pc = "find"
    /\ reqs' = [reqs EXCEPT ![r] =
            IF ~dbUp THEN Answer(reqs[r], 500, "Server error")
            ELSE IF UsersOf(reqs[r].email) = {}
            THEN Answer(reqs[r], 401, "Invalid email or password")
            ELSE LET row == users[CHOOSE i \in UsersOf(reqs[r].email) : TRUE]
                 IN  [reqs[r] EXCEPT !.pc = "compare", !.uid = row.id,
                                     !.hash = row.password_hash]]
    /\ UNCHANGED <<others, config, tokens, identity, dbNow, advances, appSkew, dbUp, pool>>

\* a login that takes any password
LoginCompareAnyPassword(r) ==
    /\ reqs[r].srv = "node"
    /\ reqs[r].pc = "compare"
    /\ sessions' = [sessions EXCEPT ![reqs[r].client] = reqs[r].uid]
    /\ reqs' = [reqs EXCEPT ![r] = Answer(reqs[r], 200, "ok")]
    /\ UNCHANGED <<random, worker, users, userIdentity, config, tokens, identity, dbNow,
                   advances, appSkew, dbUp, pool>>

\* await bcrypt.compare(password, row.password_hash); a match sets
\* req.session.userId = user.id
LoginCompare(r) ==
    /\ reqs[r].srv = "node"
    /\ reqs[r].pc = "compare"
    /\ IF Compare(reqs[r].password, reqs[r].hash)
       THEN /\ sessions' = [sessions EXCEPT ![reqs[r].client] = reqs[r].uid]
            /\ reqs' = [reqs EXCEPT ![r] = Answer(reqs[r], 200, "ok")]
       ELSE /\ sessions' = sessions
            /\ reqs' = [reqs EXCEPT ![r] =
                    Answer([reqs[r] EXCEPT !.uid = NoUser], 401, "Invalid email or password")]
    /\ UNCHANGED <<random, worker, users, userIdentity, config, tokens, identity, dbNow,
                   advances, appSkew, dbUp, pool>>

\* req.session.destroy(..): the session of the cookie is taken out of the store
Logout(r, client) ==
    /\ FreeSlot(r)
    /\ sessions' = [sessions EXCEPT ![client] = NoUser]
    /\ reqs' = [reqs EXCEPT ![r] =
            Answer([Idle EXCEPT !.srv = "node", !.op = "logout", !.client = client],
                   200, "ok")]
    /\ UNCHANGED <<random, worker, users, userIdentity, config, tokens, identity, dbNow,
                   advances, appSkew, dbUp, pool>>

-----------------------------------------------------------------------------
(* The environment *)

\* the database becomes unreachable; the pool object still says connected
DbDown ==
    /\ dbUp
    /\ dbUp' = FALSE
    /\ UNCHANGED <<others, config, tokens, identity, dbNow, advances, appSkew, pool, reqs>>

DbBack ==
    /\ ~dbUp
    /\ dbUp' = TRUE
    /\ UNCHANGED <<others, config, tokens, identity, dbNow, advances, appSkew, pool, reqs>>

-----------------------------------------------------------------------------
(* Inputs *)

Keys == {Absent, " "} \cup Tokens

Fields == {Absent, "", "a@b.com"}

GatePaths == StaticFiles \cup AllowedApi

SessionIds == {"cs_1", "cs_2"}

\* ?return= of the success redirect: none, "/m.html", "h://m.html"
Returns ==
    {Absent,
     <<"/", "m", ".", "h", "t", "m", "l">>,
     <<"h", ":", "/", "/", "m", ".", "h", "t", "m", "l">>}

\* what ?return= can be made of: slashes or a scheme in front, a name with or
\* without a slash in it, and the extension, whole, cut short or followed by more
ReturnPrefixes == {<<>>, <<"/">>, <<"/", "/">>, <<"h", ":", "/", "/">>}

ReturnStems == {<<>>, <<"m">>, <<"B", "-", "1">>, <<"m", "/", "m">>}

ReturnSuffixes ==
    {<<".", "h", "t", "m", "l">>,
     <<".", "h", "t", "m", "l", "/">>,
     <<".", "h", "t", "m", "l", "?", "m">>,
     <<".", "h", "t", "m">>}

ReturnStrings ==
    {<<>>} \cup {p \o s \o x : p \in ReturnPrefixes, s \in ReturnStems, x \in ReturnSuffixes}

\* bytes whose bits give every kind of character: letters, digits, "+", "/"
ByteValues == {0, 62, 251, 255}

\* what one call of the random source can give
ByteStrings ==
    UNION {[1..n -> ByteValues] : n \in 1..MaxBytes}

\* the requests a page makes: method, origin, path, mode
SwRequests ==
    {<<"POST", "same", <<"api", "finalise-token">>, "cors">>,
     <<"GET", "same", <<"api", "check-token">>, "cors">>,
     <<"GET", "same", <<"api", "check-token">>, "navigate">>,
     <<"GET", "same", <<"API", "check-token">>, "cors">>,
     <<"GET", "cross", <<"styles.css">>, "no-cors">>,
     <<"POST", "same", <<"BCC.html">>, "navigate">>,
     <<"GET", "same", <<>>, "navigate">>,
     <<"GET", "same", <<"BCC.html">>, "navigate">>,
     <<"GET", "same", <<"m.html">>, "cors">>,
     <<"GET", "same", <<"gone.html">>, "navigate">>,
     <<"GET", "same", <<"styles.css">>, "no-cors">>,
     <<"GET", "same", <<"app.js">>, "no-cors">>,
     <<"GET", "same", <<"gone.js">>, "no-cors">>}

\* bodies of register: first_name, last_name, email, password
RegisterBodies ==
    {<<"J", "D", "a@b.com", "p1">>,
     <<"J", "D", "c@d.com", "p2">>,
     <<Absent, "D", "a@b.com", "p1">>,
     <<"J", "D", "a@b.com", Absent>>}

\* bodies of login: email, password
LoginBodies ==
    {<<"a@b.com", "p1">>, <<"a@b.com", "p2">>, <<"c@d.com", "p1">>, <<Absent, "p1">>}

\* a Stripe key is set, and APP_BASE_URL is unset or set with a slash at its end
StripeConfigs ==
    {[DefaultConfig EXCEPT !.stripe = TRUE],
     [DefaultConfig EXCEPT !.stripe = TRUE, !.APP_BASE_URL = Origin \o <<"/">>]}

\* report base URLs a deployment can be given: the page, the page with a
\* slash at its end, the page with a query
BaseUrls ==
    {Origin \o <<"/", "BCC.html">>,
     Origin \o <<"/", "report", "/">>,
     Origin \o <<"/", "BCC.html", "?", "v=2">>}

UrlConfigs ==
    {[DefaultConfig EXCEPT !.REPORT_BASE_URL = b, !.reportBaseUrl = b] : b \in BaseUrls}

\* both clocks agree
Init0 == Init /\ appSkew = 0

\* the servers started with one of the report base URLs
InitUrl ==
    /\ tokens = <<>>
    /\ identity = 1
    /\ dbNow = 0
    /\ advances = 0
    /\ appSkew = 0
    /\ dbUp = TRUE
    /\ pool = "null"
    /\ config \in UrlConfigs
    /\ reqs = [r \in 1..MaxReqs |-> Idle]
    /\ OthersInit

\* both clocks agree and the Node server has a Stripe key
InitLife ==
    /\ tokens = <<>>
    /\ identity = 1
    /\ dbNow = 0
    /\ advances = 0
    /\ appSkew = 0
    /\ dbUp = TRUE
    /\ pool = "null"
    /\ config = [DefaultConfig EXCEPT !.stripe = TRUE]
    /\ reqs = [r \in 1..MaxReqs |-> Idle]
    /\ OthersInit

\* the Node server started with a Stripe key, or without one
InitStripe ==
    /\ tokens = <<>>
    /\ identity = 1
    /\ dbNow = 0
    /\ advances = 0
    /\ appSkew = 0
    /\ dbUp = TRUE
    /\ pool = "null"
    /\ config \in StripeConfigs \cup {DefaultConfig}
    /\ reqs = [r \in 1..MaxReqs |-> Idle]
    /\ OthersInit

\* as many requests as the table takes rows, on a Node server with a Stripe key
InitAnswer ==
    /\ tokens = <<>>
    /\ identity = 1
    /\ dbNow = 0
    /\ advances = 0
    /\ appSkew = 0
    /\ dbUp = TRUE
    /\ pool = "null"
    /\ config = [DefaultConfig EXCEPT !.stripe = TRUE]
    /\ reqs = [r \in 1..MaxInserts |-> Idle]
    /\ OthersInit

\* room for one request more, for the races
InitRace ==
    /\ tokens = <<>>
    /\ identity = 1
    /\ dbNow = 0
    /\ advances = 0
    /\ appSkew = 0
    /\ dbUp = TRUE
    /\ pool = "null"
    /\ config = DefaultConfig
    /\ reqs = [r \in 1..MaxRace |-> Idle]
    /\ OthersInit

-----------------------------------------------------------------------------
(* Specifications *)

\* a token's life on the Node server, with the gate of the ASP.NET server
\* reading the same table; the database is reachable throughout
Next ==
    \/ Tick
    \/ \E r \in Reqs : CreateTokenArrive(r, "a@b.com", "a@b.com")
    \/ \E r \in Reqs, tok \in Tokens : CreateTokenInsert(r, tok)
    \/ \E r \in Reqs : CheckTokenArrive(r, "tA")
    \/ \E r \in Reqs : CheckTokenSelect(r)
    \/ \E r \in Reqs, key \in Tokens : FinaliseTokenArrive(r, key)
    \/ \E r \in Reqs : FinaliseTokenUpdate(r)
    \/ \E r \in Reqs : FinaliseTokenRespond(r)
    \/ \E r \in Reqs : GetPool(r)
    \/ \E r \in Reqs, key \in Tokens : GateArrive(r, ReportPage, key, Absent, Absent)
    \/ \E r \in Reqs : GateCheck(r)

Spec == Init0 /\ [][Next]_vars

\* the probe of the Node server, whose clock may be off, next to create-token
\* and finalise-token
CheckNext ==
    \/ Tick
    \/ \E r \in Reqs : CreateTokenArrive(r, "a@b.com", "a@b.com")
    \/ \E r \in Reqs : CreateTokenInsert(r, "tA")
    \/ \E r \in Reqs, key \in Keys : CheckTokenArrive(r, key)
    \/ \E r \in Reqs : CheckTokenSelect(r)
    \/ \E r \in Reqs : FinaliseTokenArrive(r, "tA")
    \/ \E r \in Reqs : FinaliseTokenUpdate(r)
    \/ \E r \in Reqs : FinaliseTokenRespond(r)
    \/ \E r \in Reqs : GetPool(r)

SpecCheck == Init /\ [][CheckNext]_vars

\* finalise-token of both servers, racing for the tokens
FinaliseNext ==
    \/ Tick
    \/ \E r \in Reqs : CreateTokenArrive(r, "a@b.com", "a@b.com")
    \/ \E r \in Reqs : CreateTokenInsert(r, "tA")
    \/ \E r \in Reqs, key \in Tokens : FinaliseTokenArrive(r, key)
    \/ \E r \in Reqs : FinaliseTokenUpdate(r)
    \/ \E r \in Reqs : FinaliseTokenRespond(r)
    \/ \E r \in Reqs : GetPool(r)
    \/ \E r \in Reqs, key \in Tokens : GateArrive(r, FinaliseTokenPath, key, Absent, Absent)
    \/ \E r \in Reqs : CsFinaliseTokenUpdate(r)

SpecFinalise == InitRace /\ [][FinaliseNext]_vars

\* the ASP.NET server behind its gate, next to the static files of the Node server
GateSpecNext ==
    \/ Tick
    \/ \E r \in Reqs : GateArrive(r, CreateTokenPath, Absent, "a@b.com", "a@b.com")
    \/ \E r \in Reqs : CsCreateTokenInsert(r, "tA")
    \/ \E r \in Reqs, path \in StaticFiles \cup {FinaliseTokenPath}, key \in Keys :
            GateArrive(r, path, key, Absent, Absent)
    \/ \E r \in Reqs : GateCheck(r)
    \/ \E r \in Reqs : CsFinaliseTokenUpdate(r)
    \/ \E r \in Reqs : StaticGet(r, ReportPage, Absent)

SpecGate == Init0 /\ [][GateSpecNext]_vars

\* finalise-token of both servers while the database comes and goes
FailNext ==
    \/ DbDown
    \/ DbBack
    \/ Tick
    \/ \E r \in Reqs : CreateTokenArrive(r, "a@b.com", "a@b.com")
    \/ \E r \in Reqs : CreateTokenInsert(r, "tA")
    \/ \E r \in Reqs, key \in Keys : FinaliseTokenArrive(r, key)
    \/ \E r \in Reqs : FinaliseTokenUpdate(r)
    \/ \E r \in Reqs : FinaliseTokenRespond(r)
    \/ \E r \in Reqs : GetPool(r)
    \/ \E r \in Reqs, key \in Keys : GateArrive(r, FinaliseTokenPath, key, Absent, Absent)
    \/ \E r \in Reqs : CsFinaliseTokenUpdate(r)

SpecFail == Init0 /\ [][FailNext]_vars

\* create-token of both servers, with every shape of body, while the database comes and goes
CreateNext ==
    \/ DbDown
    \/ DbBack
    \/ Tick
    \/ \E r \in Reqs, email \in Fields, orderId \in Fields : CreateTokenArrive(r, email, orderId)
    \/ \E r \in Reqs, tok \in Tokens : CreateTokenInsert(r, tok)
    \/ \E r \in Reqs : GetPool(r)
    \/ \E r \in Reqs, email \in Fields, orderId \in Fields :
            GateArrive(r, CreateTokenPath, Absent, email, orderId)
    \/ \E r \in Reqs, tok \in Tokens : CsCreateTokenInsert(r, tok)

SpecCreate == Init0 /\ [][CreateNext]_vars

\* the success redirect of the payment provider, delivered any number of times
StripeNext ==
    \/ \E r \in Reqs, sessionId \in SessionIds \cup {Absent}, ret \in Returns :
            StripeSuccessArrive(r, sessionId, ret)
    \/ \E r \in Reqs, answer \in ProviderAnswers : StripeSuccessRetrieve(r, answer)
    \/ \E r \in Reqs, tok \in Tokens : StripeSuccessInsert(r, tok)
    \/ \E r \in Reqs : GetPool(r)

SpecStripe == InitStripe /\ [][StripeNext]_vars

\* every operation on one token: both ways of issuing it, the probe, the gate
\* and finalise-token of both servers
LifeNext ==
    \/ Tick
    \/ \E r \in Reqs : CreateTokenArrive(r, "a@b.com", "a@b.com")
    \/ \E r \in Reqs : CreateTokenInsert(r, "tA")
    \/ \E r \in Reqs : StripeSuccessArrive(r, "cs_1", Absent)
    \/ \E r \in Reqs : StripeSuccessRetrieve(r, "paid")
    \/ \E r \in Reqs, tok \in Tokens : StripeSuccessInsert(r, tok)
    \/ \E r \in Reqs : CheckTokenArrive(r, "tA")
    \/ \E r \in Reqs : CheckTokenSelect(r)
    \/ \E r \in Reqs : FinaliseTokenArrive(r, "tA")
    \/ \E r \in Reqs : FinaliseTokenUpdate(r)
    \/ \E r \in Reqs : FinaliseTokenRespond(r)
    \/ \E r \in Reqs : GetPool(r)
    \/ \E r \in Reqs, path \in {ReportPage, FinaliseTokenPath} :
            GateArrive(r, path, "tA", Absent, Absent)
    \/ \E r \in Reqs : GateCheck(r)
    \/ \E r \in Reqs : CsFinaliseTokenUpdate(r)

SpecLife == InitLife /\ [][LifeNext]_vars

\* a client session on the ASP.NET server: pages asked for with and without
\* the key, before and after the token is finalised
SessionNext ==
    \/ Tick
    \/ \E r \in Reqs : GateArrive(r, CreateTokenPath, Absent, "a@b.com", "a@b.com")
    \/ \E r \in Reqs : CsCreateTokenInsert(r, "tA")
    \/ \E r \in Reqs, key \in {Absent, "tA"} : GateArrive(r, ReportPage, key, Absent, Absent)
    \/ \E r \in Reqs : GateCheck(r)
    \/ \E r \in Reqs : GateArrive(r, FinaliseTokenPath, "tA", Absent, Absent)
    \/ \E r \in Reqs : CsFinaliseTokenUpdate(r)

SpecSession == InitRace /\ [][SessionNext]_vars

\* finalise-token of the Node server with clients that go away and try again
LostNext ==
    \/ Tick
    \/ \E r \in Reqs : CreateTokenArrive(r, "a@b.com", "a@b.com")
    \/ \E r \in Reqs : CreateTokenInsert(r, "tA")
    \/ \E r \in Reqs, key \in Tokens : FinaliseTokenArrive(r, key)
    \/ \E r \in Reqs : FinaliseTokenUpdate(r)
    \/ \E r \in Reqs : FinaliseTokenRespond(r)
    \/ \E r \in Reqs : ClientGone(r)
    \/ \E r \in Reqs : GetPool(r)

SpecLost == Init0 /\ [][LostNext]_vars

\* the three implementations of create-token
UrlNext ==
    \/ \E r \in Reqs : CreateTokenArrive(r, "a@b.com", "a@b.com")
    \/ \E r \in Reqs, tok \in Tokens : CreateTokenInsert(r, tok)
    \/ \E r \in Reqs : GetPool(r)
    \/ \E r \in Reqs : GateArrive(r, CreateTokenPath, Absent, "a@b.com", "a@b.com")
    \/ \E r \in Reqs, tok \in Tokens : CsCreateTokenInsert(r, tok)
    \/ \E r \in Reqs, email \in {" ", "a@b.com"} : ProgramCreateTokenArrive(r, email, "a@b.com")
    \/ \E r \in Reqs, tok \in Tokens : ProgramCreateTokenInsert(r, tok)

SpecUrl == InitUrl /\ [][UrlNext]_vars

\* one token and the three checks of it: the probe, the gate, finalise-token
BoundaryNext ==
    \/ Tick
    \/ \E r \in Reqs : CreateTokenArrive(r, "a@b.com", "a@b.com")
    \/ \E r \in Reqs : CreateTokenInsert(r, "tA")
    \/ \E r \in Reqs : CheckTokenArrive(r, "tA")
    \/ \E r \in Reqs : CheckTokenSelect(r)
    \/ \E r \in Reqs : FinaliseTokenArrive(r, "tA")
    \/ \E r \in Reqs : FinaliseTokenUpdate(r)
    \/ \E r \in Reqs : FinaliseTokenRespond(r)
    \/ \E r \in Reqs : GetPool(r)
    \/ \E r \in Reqs : GateArrive(r, ReportPage, "tA", Absent, Absent)
    \/ \E r \in Reqs : GateCheck(r)

SpecBoundary == InitRace /\ [][BoundaryNext]_vars

\* two tokens in the table and finalise-token of both servers for either
FrameNext ==
    \/ Tick
    \/ \E r \in Reqs : CreateTokenArrive(r, "a@b.com", "a@b.com")
    \/ \E r \in Reqs, tok \in Tokens : CreateTokenInsert(r, tok)
    \/ \E r \in Reqs, key \in Tokens : FinaliseTokenArrive(r, key)
    \/ \E r \in Reqs : FinaliseTokenUpdate(r)
    \/ \E r \in Reqs : FinaliseTokenRespond(r)
    \/ \E r \in Reqs : GetPool(r)
    \/ \E r \in Reqs, key \in Tokens : GateArrive(r, FinaliseTokenPath, key, Absent, Absent)
    \/ \E r \in Reqs : CsFinaliseTokenUpdate(r)

SpecFrame == Init0 /\ [][FrameNext]_vars

\* the next step of the handler of request r: the promise it awaits settles
\* and the handler runs on to its next await or to its answer
HandlerStep(r) ==
    \/ GetPool(r)
    \/ CreateTokenInsert(r, "tA")
    \/ CheckTokenSelect(r)
    \/ FinaliseTokenUpdate(r)
    \/ FinaliseTokenRespond(r)
    \/ \E answer \in ProviderAnswers : StripeSuccessRetrieve(r, answer)
    \/ StripeSuccessInsert(r, "tA")

\* the four token routes of the Node server while the database comes and goes
\* and the payment provider answers or throws
AnswerNext ==
    \/ DbDown
    \/ DbBack
    \/ \E r \in Reqs : CreateTokenArrive(r, "a@b.com", "a@b.com")
    \/ \E r \in Reqs, key \in {Absent, "tA"} : CheckTokenArrive(r, key)
    \/ \E r \in Reqs, key \in {Absent, "tA"} : FinaliseTokenArrive(r, key)
    \/ \E r \in Reqs, sessionId \in {Absent, "cs_1"} : StripeSuccessArrive(r, sessionId, Absent)
    \/ \E r \in Reqs : HandlerStep(r)

\* every promise a handler awaits settles: sql.connect and a query resolve or
\* reject within the driver's timeouts, the provider's client within its own,
\* and the event loop then runs the handler on
SpecAnswer ==
    /\ InitAnswer
    /\ [][AnswerNext]_vars
    /\ \A r \in 1..MaxInserts : WF_vars(HandlerStep(r))

\* the success redirect with every shape of ?return=
ReturnNext ==
    \/ \E r \in Reqs, ret \in ReturnStrings : StripeSuccessArrive(r, "cs_1", ret)
    \/ \E r \in Reqs : StripeSuccessArrive(r, "cs_1", Absent)
    \/ \E r \in Reqs : StripeSuccessArrive(r, "cs_1", NotString)
    \/ \E r \in Reqs, answer \in {"unpaid", "paid"} : StripeSuccessRetrieve(r, answer)
    \/ \E r \in Reqs, tok \in Tokens : StripeSuccessInsert(r, tok)
    \/ \E r \in Reqs : GetPool(r)

SpecReturn == InitAnswer /\ [][ReturnNext]_vars

\* two draws of the random source, each encoded by both servers
TokenNext ==
    \/ \E bytes \in ByteStrings : RandomBytes(bytes)
    \/ \E i \in 1..MaxDraws : NodeGenerateToken(i)
    \/ \E i \in 1..MaxDraws : CsGenerateToken(i)

SpecToken == Init0 /\ [][TokenNext]_vars

\* the pages' requests through the service worker, with the network coming and going
WorkerNext ==
    \/ NetDown
    \/ NetUp
    \/ \E r \in Reqs, q \in SwRequests : SwFetch(r, q[1], q[2], q[3], q[4])
    \/ \E r \in Reqs : SwNavFetch(r)
    \/ \E r \in Reqs : SwFallback(r)
    \/ \E r \in Reqs : SwMatch(r)
    \/ \E r \in Reqs : SwAssetFetch(r)

SpecWorker == Init0 /\ [][WorkerNext]_vars

\* the auth routes for two browsers while the database comes and goes
AuthNext ==
    \/ DbDown
    \/ DbBack
    \/ \E r \in Reqs, client \in Clients, b \in RegisterBodies :
            RegisterArrive(r, client, b[1], b[2], b[3], b[4])
    \/ \E r \in Reqs : RegisterExists(r)
    \/ \E r \in Reqs : RegisterHash(r)
    \/ \E r \in Reqs : RegisterInsert(r)
    \/ \E r \in Reqs, client \in Clients, b \in LoginBodies : LoginArrive(r, client, b[1], b[2])
    \/ \E r \in Reqs : LoginFind(r)
    \/ \E r \in Reqs : LoginCompare(r)
    \/ \E r \in Reqs, client \in Clients : Logout(r, client)
    \/ \E r \in Reqs : GetPool(r)

SpecAuth == Init0 /\ [][AuthNext]_vars

-----------------------------------------------------------------------------
(* Vocabulary of the properties *)

Done(r) == reqs[r].pc = "done"

\* request r took a step
Stepped(r) == reqs'[r] # reqs[r]

\* request r ran its statement in the database in this step
Ran(r, pc) == reqs[r].pc = pc /\ reqs'[r].pc # pc

\* the row of a token, if it has one
HasRow(t) == RowsOf(tokens, t) # {}

RowOf(t) == tokens[CHOOSE i \in RowsOf(tokens, t) : TRUE]

\* the store's flags and times as the spec words them
IsUsed(t) == HasRow(t) /\ RowOf(t).Used = 1

IsExpired(t) == HasRow(t) /\ RowOf(t).ExpiresAt <= dbNow

IsValid(t) == HasRow(t) /\ RowOf(t).Used = 0 /\ dbNow < RowOf(t).ExpiresAt

Finalises(t) == {r \in Reqs : reqs[r].op = "finalise" /\ reqs[r].key = t}

\* once used, always used
UsedStays == \A i \in 1..Len(tokens) : tokens[i].Used = 1 => tokens'[i].Used = 1

-----------------------------------------------------------------------------
(* C1 *)

C1_Log ==
    \A t \in Tokens :
        /\ Cardinality({r \in Finalises(t) : reqs[r].res >= 1}) = (IF IsUsed(t) THEN 1 ELSE 0)
        /\ \A r \in Finalises(t) :
               Done(r) => reqs[r].status = (IF reqs[r].res >= 1 THEN 200 ELSE 400)

C1_Step ==
    /\ UsedStays
    /\ \A r \in Reqs : Ran(r, "update") =>
           (IsValid(reqs[r].key) <=> reqs'[r].res = 1)

\* C1: of the finalise-token requests for one token, run in any interleaving on
\* either server, the one whose UPDATE finds the token valid is answered 200
\* and every other is answered 400; the row's Used goes from 0 to 1 once, with
\* that request, and never back.
C1_SingleConsumption == []C1_Log /\ [][C1_Step]_vars

\* two requests raced for one token: the winner's UPDATE is done and its answer
\* still to be sent while the loser has its 400 already; a third one lost too
C1_Witness ==
    \E t \in Tokens : \E a, b, c \in Finalises(t) :
        /\ a # b /\ b # c /\ a # c
        /\ reqs[a].pc = "respond" /\ reqs[a].res = 1
        /\ Done(b) /\ reqs[b].status = 400 /\ reqs[b].srv = "cs"
        /\ Done(c) /\ reqs[c].status = 400 /\ reqs[c].srv = "node"

-----------------------------------------------------------------------------
(* C2 *)

\* the allow-list as the claim words it: token issuance and the static
\* prefixes /js, /css, /images, /lib, /favicon.ico, in any case of letters
IssuanceOrAsset(path) ==
    \/ Len(path) >= 2 /\ path[1] = "api" /\ path[2] = "create-token"
    \/ Len(path) >= 1 /\
         path[1] \in {"js", "css", "images", "lib", "favicon.ico",
                      "JS", "CSS", "Images", "Lib", "Favicon.ico"}

\* C2: a request for a page outside the allow-list (the report page BCC.html)
\* is served only when a gate found its key valid, and is answered 403
\* otherwise.
C2_PagesGated ==
    \A r \in Reqs :
        (Done(r) /\ reqs[r].op = "static" /\ ~IssuanceOrAsset(reqs[r].path)) =>
            IF reqs[r].gate = "valid" THEN reqs[r].status = 200 ELSE reqs[r].status = 403

-----------------------------------------------------------------------------
(* C3 *)

Gated(r) == reqs[r].srv = "cs" /\ ~AllowListed(reqs[r].path)

C3_Terminal ==
    \A r \in Reqs : (Gated(r) /\ Done(r)) =>
        \/ /\ reqs[r].gate = "missing"
           /\ reqs[r].status = 403
           /\ reqs[r].key \in {Absent, "", " "}
        \/ /\ reqs[r].gate = "invalid"
           /\ reqs[r].status = 403
           /\ reqs[r].key \notin {Absent, "", " "}
        \/ /\ reqs[r].gate = "valid"
           /\ reqs[r].status # 403
           /\ reqs[r].key \notin {Absent, "", " "}

C3_Step ==
    \A r \in Reqs : (Gated(r) /\ Ran(r, "gate")) =>
        LET t == reqs[r].key IN
        /\ Done(r)'
        /\ reqs'[r].gate = (IF ~HasRow(t) \/ IsUsed(t) \/ IsExpired(t) THEN "invalid" ELSE "valid")

\* C3: the gate ends a request outside the allow-list in one of three ways:
\* MISSING_KEY with 403 when the key is absent or blank; INVALID with 403 when
\* no row matches the key, or the row is used, or its ExpiresAt <= now; VALID,
\* passed on, otherwise. A request answered 403 is never passed on.
C3_GateOutcomes == []C3_Terminal /\ [][C3_Step]_vars

\* a key passed while its token was valid and was turned away once the token
\* had expired
C3_Witness ==
    \E b, c \in Reqs :
        /\ Gated(b) /\ Done(b) /\ reqs[b].gate = "valid" /\ reqs[b].status = 200
        /\ Gated(c) /\ Done(c) /\ reqs[c].gate = "invalid" /\ reqs[c].key = reqs[b].key
        /\ IsExpired(reqs[c].key) /\ ~IsUsed(reqs[c].key)

-----------------------------------------------------------------------------
(* C4 *)

\* C4: a request to /api/create-token or under /js, /css, /images, /lib,
\* /favicon.ico that carries no key passes the gate without a read of the
\* store (it is never in the gate's CHECKING state) and is never answered 403,
\* whatever the store holds.
C4_AllowList ==
    \A r \in Reqs :
        (reqs[r].srv = "cs" /\ IssuanceOrAsset(reqs[r].path) /\ reqs[r].key = Absent) =>
            /\ reqs[r].gate = "allow"
            /\ reqs[r].pc # "gate"
            /\ reqs[r].status # 403

\* an asset and a create-token, both without key, got through while the store
\* held a token
C4_Witness ==
    /\ tokens # <<>>
    /\ \E a, b \in Reqs :
        /\ reqs[a].srv = "cs" /\ reqs[a].path = <<"Images", "logo.png">>
        /\ reqs[a].key = Absent /\ Done(a) /\ reqs[a].status = 200
        /\ reqs[b].srv = "cs" /\ reqs[b].path = CreateTokenPath
        /\ reqs[b].key = Absent /\ Done(b) /\ reqs[b].status = 200

-----------------------------------------------------------------------------
(* C5 *)

\* a request that only reads: the probe, or a page behind the gate
Reader(rec) == rec.op = "check" \/ (rec.srv = "cs" /\ rec.op = "static")

\* C5: no step of a gate check or of a check-token probe changes the token
\* table; a token that was valid before the step is valid after it, with every
\* field of every row as it was.
C5_ReadOnly ==
    [][\A r \in Reqs : (Stepped(r) /\ Reader(reqs'[r])) =>
            /\ tokens' = tokens
            /\ \A t \in Tokens : IsValid(t) => IsValid(t)']_vars

\* the gate let a key through and the probe said 200, and the token is as valid
\* and as unused as before
C5_Witness ==
    \E a, b \in Reqs :
        /\ Gated(a) /\ Done(a) /\ reqs[a].gate = "valid"
        /\ reqs[b].op = "check" /\ Done(b) /\ reqs[b].status = 200
        /\ reqs[a].key = reqs[b].key
        /\ IsValid(reqs[a].key)
        /\ RowOf(reqs[a].key).UsedAt = NullTime

-----------------------------------------------------------------------------
(* C6 *)

C6_Log ==
    \A r \in Reqs :
        /\ (reqs[r].op = "create" /\ Done(r) /\ reqs[r].status = 200) => HasRow(reqs[r].out)
        /\ (reqs[r].op = "finalise" /\ Done(r)) =>
               reqs[r].status = (IF reqs[r].res = 1 THEN 200 ELSE 400)

C6_Step ==
    /\ UsedStays
    /\ \A r \in Reqs : LET t == reqs[r].key IN
        /\ (Ran(r, "gate") /\ IsValid(t)) =>
               reqs'[r].gate = "valid" /\ reqs'[r].status = 200
        /\ (Ran(r, "gate") /\ IsUsed(t)) =>
               reqs'[r].gate = "invalid" /\ reqs'[r].status = 403
        /\ (Ran(r, "update") /\ IsValid(t)) =>
               reqs'[r].res = 1 /\ IsUsed(t)'
        /\ (Ran(r, "update") /\ IsUsed(t)) =>
               reqs'[r].res = 0 /\ tokens' = tokens

\* C6: a token returned by create-token has a row; while it is unused and
\* within its time to live a gate check of it passes and a finalise of it
\* succeeds and marks it used; once it is used, every gate check of it is
\* denied with 403 and every finalise of it is rejected with 400.
C6_RoundTrip == []C6_Log /\ [][C6_Step]_vars

\* created, finalised with 200, and the gate check that came after was denied
C6_Witness ==
    \E a, b, c \in Reqs :
        /\ reqs[a].op = "create" /\ Done(a) /\ reqs[a].status = 200
        /\ reqs[b].op = "finalise" /\ Done(b) /\ reqs[b].status = 200
        /\ reqs[b].key = reqs[a].out
        /\ Gated(c) /\ Done(c) /\ reqs[c].gate = "invalid" /\ reqs[c].status = 403
        /\ reqs[c].key = reqs[a].out
        /\ ~IsExpired(reqs[a].out)

-----------------------------------------------------------------------------
(* C7 *)

InPast(t) == HasRow(t) /\ RowOf(t).ExpiresAt < dbNow

C7_Step ==
    /\ Len(tokens') >= Len(tokens)
    /\ \A i \in 1..Len(tokens) :
        /\ tokens'[i].ExpiresAt = tokens[i].ExpiresAt
        /\ tokens[i].ExpiresAt < dbNow =>
               ValidRows(tokens', tokens[i].Token, dbNow') = {}
    /\ \A r \in Reqs : LET t == reqs[r].key IN
        /\ (Ran(r, "gate") /\ InPast(t)) =>
               reqs'[r].gate = "invalid" /\ reqs'[r].status = 403
        /\ (Ran(r, "update") /\ InPast(t)) =>
               reqs'[r].res = 0 /\ tokens' = tokens
        /\ (Ran(r, "respond") /\ reqs[r].res = 0) => reqs'[r].status = 400

\* C7: a token whose ExpiresAt lies in the past is denied by the gate and
\* rejected by finalise-token, used or not, and the finalise leaves the table
\* as it was; no step changes an ExpiresAt, and a token that has expired is
\* not valid in any later state.
C7_Expiry == [][C7_Step]_vars

\* an unused token past its expiry: the gate denied it, finalise rejected it,
\* and it is still unused
C7_Witness ==
    \E a, b \in Reqs :
        /\ Gated(a) /\ Done(a) /\ reqs[a].gate = "invalid"
        /\ reqs[b].op = "finalise" /\ Done(b) /\ reqs[b].status = 400
        /\ reqs[a].key = reqs[b].key
        /\ InPast(reqs[a].key)
        /\ RowOf(reqs[a].key).Used = 0
        /\ RowOf(reqs[a].key).CreatedAt < dbNow

-----------------------------------------------------------------------------
(* C8 *)

C8_Step ==
    \A r \in Reqs : Ran(r, "select") =>
        LET t == reqs[r].key
            st == reqs'[r].status IN
        /\ st \in {200, 404, 409, 410}
        /\ st = 404 <=> ~HasRow(t)
        /\ st = 200 <=> (HasRow(t) /\ RowOf(t).Used = 0 /\ RowOf(t).ExpiresAt > AppNow)
        /\ (HasRow(t) /\ RowOf(t).Used = 1) => st = 409
        /\ (HasRow(t) /\ RowOf(t).Used = 0 /\ RowOf(t).ExpiresAt <= AppNow) => st = 410
        /\ st = 200 => (reqs'[r].msg = "ok" /\ reqs'[r].exp = RowOf(t).ExpiresAt)

\* C8: check-token answers 404 when no row has the key, 409 when the row is
\* used, 410 when the row is unused and its ExpiresAt is not after the time
\* the handler reads (the clock of the Node process), and 200 with the row's
\* expiresAt exactly when the row is unused and its ExpiresAt is after that
\* time.
C8_CheckToken == [][C8_Step]_vars

\* one token probed twice: 200 while it was valid, 410 once it had expired
C8_Witness ==
    \E a, b \in Reqs :
        /\ reqs[a].op = "check" /\ Done(a) /\ reqs[a].status = 200
        /\ reqs[a].exp = RowOf(reqs[a].key).ExpiresAt
        /\ reqs[b].op = "check" /\ Done(b) /\ reqs[b].status = 410
        /\ reqs[a].key = reqs[b].key

-----------------------------------------------------------------------------
(* C9 *)

GenericRejection == "This report link is invalid, expired, or already used."

\* the rows a step changed
Changed == {i \in 1..Len(tokens) : tokens'[i] # tokens[i]}

\* no key in the query: `?key=` is empty for both servers, blank for ASP.NET
KeyMissing(r) ==
    IF reqs[r].srv = "cs" THEN reqs[r].key \in {Absent, "", " "}
                          ELSE reqs[r].key \in {Absent, ""}

C9_Log ==
    \A r \in Reqs : (reqs[r].op = "finalise" /\ Done(r)) =>
        /\ reqs[r].status \in {200, 400, 500}
        /\ reqs[r].status = 200 <=> reqs[r].res = 1
        /\ KeyMissing(r) => reqs[r].status = 400
        /\ reqs[r].status = 400 =>
               IF KeyMissing(r)
               THEN reqs[r].msg = "Missing key." /\ reqs[r].res = -1
               ELSE reqs[r].msg = GenericRejection /\ reqs[r].res = 0
        /\ reqs[r].status = 500 => reqs[r].res = -1

C9_Step ==
    /\ Len(tokens') >= Len(tokens)
    /\ \A r \in Reqs : (Stepped(r) /\ reqs'[r].op = "finalise") =>
        /\ IF reqs'[r].res = 1 /\ reqs[r].res # 1
           THEN /\ Cardinality(Changed) = 1
                /\ \A i \in Changed :
                       /\ tokens[i].Token = reqs[r].key
                       /\ tokens[i].Used = 0
                       /\ tokens'[i].Used = 1
           ELSE tokens' = tokens
        /\ (reqs[r].pc = "update" /\ ~dbUp) => reqs'[r].status = 500
        /\ (reqs[r].pc = "pool" /\ ~dbUp) => reqs'[r].status = 500

-----------------------------------------------------------------------------
(* C10 *)

Lacks(v) == v \in {Absent, ""}

C10_Log ==
    /\ \A r \in Reqs : (reqs[r].op = "create" /\ (Lacks(reqs[r].email) \/ Lacks(reqs[r].orderId))) =>
           /\ Done(r)
           /\ reqs[r].status = 400
           /\ reqs[r].out = ""
    /\ \A i \in 1..Len(tokens) : ~Lacks(tokens[i].UserEmail) /\ ~Lacks(tokens[i].PaymentId)

C10_Step ==
    \A r \in Reqs :
        (Stepped(r) /\ reqs'[r].op = "create"
                    /\ (Lacks(reqs'[r].email) \/ Lacks(reqs'[r].orderId))) =>
            tokens' = tokens /\ identity' = identity

\* C10: a create-token request whose body lacks email or orderId, or has
\* either empty, is answered 400 on both servers; it generates no token and
\* leaves the table as it was, so no row lacks its email or its payment id.
C10_CreateValidation == []C10_Log /\ [][C10_Step]_vars

\* the table holds a row, and one request of each server was turned away with
\* 400 without adding to it
C10_Witness ==
    /\ Len(tokens) = 1
    /\ identity = 2
    /\ \E a, b \in Reqs :
        /\ reqs[a].srv = "node" /\ reqs[a].op = "create" /\ reqs[a].orderId = Absent
        /\ reqs[a].status = 400
        /\ reqs[b].srv = "cs" /\ reqs[b].op = "create" /\ reqs[b].email = ""
        /\ reqs[b].status = 400

-----------------------------------------------------------------------------
(* C11 *)

\* the key a returned URL carries
KeyOf(url) ==
    IF Len(url) >= 2 /\ url[Len(url) - 1] = "key=" THEN url[Len(url)] ELSE Absent

\* request r of create-token was answered in this step
Answered(r, op) == reqs'[r].op = op /\ reqs[r].pc # "done" /\ reqs'[r].pc = "done"

C11_Log ==
    \A r \in Reqs : (reqs[r].op = "create" /\ Done(r)) =>
        IF reqs[r].status = 200
        THEN HasRow(KeyOf(reqs[r].url)) /\ reqs[r].out = KeyOf(reqs[r].url)
        ELSE reqs[r].url = <<>> /\ reqs[r].out = ""

C11_Step ==
    \A r \in Reqs :
        /\ (Answered(r, "create") /\ reqs'[r].status = 200) =>
              /\ reqs[r].pc = "insert"
              /\ Len(tokens') = Len(tokens) + 1
              /\ SubSeq(tokens', 1, Len(tokens)) = tokens
              /\ LET row == tokens'[Len(tokens')] IN
                    /\ row.Used = 0
                    /\ row.UsedAt = NullTime
                    /\ row.CreatedAt = Datetime2_0(dbNow)
                    /\ row.ExpiresAt = row.CreatedAt + TTL
                    /\ row.UserEmail = reqs[r].email
                    /\ row.PaymentId = reqs[r].orderId
                    /\ row.Token = KeyOf(reqs'[r].url)
        /\ (Answered(r, "create") /\ reqs'[r].status # 200) => tokens' = tokens
        /\ (Ran(r, "insert") /\ reqs'[r].op = "create" /\ tokens' = tokens) =>
              reqs'[r].status = 500

\* C11: a create-token request answered 200 came from its INSERT, which added
\* one row and touched no other: Used=0, UsedAt null, CreatedAt the time of the
\* insert in whole seconds, ExpiresAt 24 hours after it, the request's email
\* and orderId, and the token that the returned reportUrl carries as its key;
\* an INSERT that adds no row is answered 500; a request not answered 200
\* returns no URL and adds no row; so the key of every returned URL has a row.
C11_CreateToken == []C11_Log /\ [][C11_Step]_vars

\* one request got its URL and the row is there; another one's INSERT failed
\* and it got 500 and no URL
C11_Witness ==
    \E a, b \in Reqs :
        /\ reqs[a].op = "create" /\ Done(a) /\ reqs[a].status = 200
        /\ HasRow(KeyOf(reqs[a].url))
        /\ RowOf(KeyOf(reqs[a].url)).PaymentId = reqs[a].orderId
        /\ reqs[b].op = "create" /\ Done(b) /\ reqs[b].status = 500
        /\ reqs[b].url = <<>>
        /\ ~Lacks(reqs[b].email) /\ ~Lacks(reqs[b].orderId)

-----------------------------------------------------------------------------
(* C12 *)

C12_Log ==
    \A i, j \in 1..Len(tokens) :
        (tokens[i].Token = tokens[j].Token \/ tokens[i].TokenId = tokens[j].TokenId) => i = j

C12_Step ==
    /\ Len(tokens') >= Len(tokens)
    /\ \A i \in 1..Len(tokens) :
          tokens'[i].Token = tokens[i].Token /\ tokens'[i].TokenId = tokens[i].TokenId
    /\ \A r \in Reqs : (Answered(r, "create") /\ reqs'[r].status = 200) =>
          ~HasRow(reqs'[r].out)

\* C12: no two rows hold the same token string or the same TokenId; every step
\* keeps every row in its place with its token string, so the number of rows
\* never decreases; and a create-token that is answered 200 returns a string
\* no row held before, used, expired or neither: an issuance that generates a
\* string some row holds fails.
C12_TokenUnique == []C12_Log /\ [][C12_Step]_vars

\* a second issuance came out with the string of the one row, which by now is
\* used and past its expiry, and it was refused: one row, two identity values spent
C12_Witness ==
    /\ Len(tokens) = 1
    /\ identity = 3
    /\ tokens[1].Used = 1
    /\ tokens[1].ExpiresAt < dbNow
    /\ \E a, b \in Reqs :
        /\ reqs[a].op = "create" /\ Done(a) /\ reqs[a].out = tokens[1].Token
        /\ reqs[b].op = "create" /\ Done(b) /\ reqs[b].status = 500

-----------------------------------------------------------------------------
(* C13 *)

\* C13: in every reachable state every row has UsedAt null exactly when its
\* Used is 0, and a row with Used=1 has a UsedAt that is not before its
\* CreatedAt.
C13_UsedAt ==
    \A i \in 1..Len(tokens) :
        /\ tokens[i].UsedAt = NullTime <=> tokens[i].Used = 0
        /\ tokens[i].Used = 1 =>
              tokens[i].UsedAt # NullTime /\ tokens[i].UsedAt >= tokens[i].CreatedAt

\* a row finalised within the second it was created in, next to a row that
\* was not finalised
C13_Witness ==
    \E i, j \in 1..Len(tokens) :
        /\ tokens[i].Used = 1 /\ tokens[i].UsedAt = tokens[i].CreatedAt
        /\ tokens[j].Used = 0 /\ tokens[j].UsedAt = NullTime
        /\ \E r \in Reqs : reqs[r].op = "finalise" /\ reqs[r].key = tokens[i].Token
                             /\ Done(r) /\ reqs[r].status = 200

-----------------------------------------------------------------------------
(* C14 *)

\* C14: a row with Used=1 is the same row, field by field, after every step of
\* every operation (create-token, check-token, the gate, finalise-token of
\* either server, the Stripe success redirect): Used stays 1 and UsedAt stays
\* what the finalise that succeeded set it to.
C14_UsedTerminal ==
    [][\A i \in 1..Len(tokens) :
          tokens[i].Used = 1 => (Len(tokens') >= i /\ tokens'[i] = tokens[i])]_vars

\* a token issued on the Stripe redirect was finalised; a second finalise, a
\* second later, was rejected and the row has the UsedAt of the first
C14_Witness ==
    \E a, b, c \in Reqs :
        /\ reqs[a].op = "stripe" /\ Done(a) /\ reqs[a].status = 303 /\ HasRow(reqs[a].out)
        /\ reqs[b].op = "finalise" /\ Done(b) /\ reqs[b].status = 200
        /\ reqs[b].key = reqs[a].out
        /\ reqs[c].op = "finalise" /\ Done(c) /\ reqs[c].status = 400
        /\ reqs[c].key = reqs[a].out
        /\ RowOf(reqs[a].out).Used = 1
        /\ RowOf(reqs[a].out).UsedAt = RowOf(reqs[a].out).CreatedAt
        /\ dbNow >= RowOf(reqs[a].out).UsedAt + 2
        /\ dbNow < RowOf(reqs[a].out).ExpiresAt

-----------------------------------------------------------------------------
(* C15 *)

\* C15: for every payment session id, however often and however interleaved
\* the success redirect is delivered for it, at most one row has that id as
\* its PaymentId.
C15_OneIssuance ==
    \A sid \in SessionIds :
        Cardinality({i \in 1..Len(tokens) : tokens[i].PaymentId = sid}) <= 1

-----------------------------------------------------------------------------
(* C16 *)

Paid(answer) == answer \in {"paid", "paidNoEmail"}

\* the response of request r carries no key
NoKey(rec) == rec.out = "" /\ ~Contains(rec.url, "key=")

C16_Log ==
    /\ \A r \in Reqs : (reqs[r].op = "stripe" /\ ~Paid(reqs[r].session)) =>
          /\ NoKey(reqs[r])
          /\ (Done(r) /\ config.stripe /\ Lacks(reqs[r].sessionId)) => reqs[r].status = 400
          /\ (Done(r) /\ reqs[r].session \in {"null", "unpaid"}) =>
                reqs[r].status = 303 /\ reqs[r].url # <<>>
    /\ \A i \in 1..Len(tokens) :
          \E r \in Reqs : /\ reqs[r].op = "stripe" /\ Paid(reqs[r].session)
                          /\ reqs[r].sessionId = tokens[i].PaymentId
                          /\ reqs[r].out = tokens[i].Token

C16_Step ==
    \A r \in Reqs : (Stepped(r) /\ reqs'[r].op = "stripe" /\ ~Paid(reqs'[r].session)) =>
        tokens' = tokens /\ identity' = identity

\* C16: a success request whose session_id is missing, or for which the
\* provider gave no session or a session that is not paid, inserts no row at
\* any of its steps and is answered without a key: 400 for the missing
\* session_id (on a server that has a Stripe client), a 303 redirect to the
\* return page without key= for a missing or unpaid session; every row was
\* inserted by a request whose session was paid, with that session's id.
C16_PaidOnly == []C16_Log /\ [][C16_Step]_vars

\* one request without session_id got 400, one for an unpaid session was
\* redirected to the page without key, and the one row is that of a paid session
C16_Witness ==
    /\ Len(tokens) = 1
    /\ \E a, b, c \in Reqs :
        /\ reqs[a].op = "stripe" /\ reqs[a].sessionId = Absent /\ reqs[a].status = 400
        /\ reqs[b].op = "stripe" /\ reqs[b].session = "unpaid" /\ reqs[b].status = 303
        /\ reqs[b].url = Origin \o <<"/">> \o BccHtml
        /\ reqs[c].op = "stripe" /\ reqs[c].session = "paid" /\ reqs[c].status = 303
        /\ KeyOf(reqs[c].url) = tokens[1].Token

-----------------------------------------------------------------------------
(* C17 *)

\* the gate read the table for request r: it holds the COUNT(*) it got
ReadStore(r) == reqs[r].res >= 0

\* C17 as stated: every request outside the allow-list reads the Token Store
C17_EveryRequestReads ==
    \A r \in Reqs : (Gated(r) /\ Done(r)) => ReadStore(r)

C17_Log ==
    \A r \in Reqs : (Gated(r) /\ Done(r)) =>
        IF reqs[r].key \in {Absent, "", " "}
        THEN ~ReadStore(r) /\ reqs[r].gate = "missing" /\ reqs[r].status = 403
        ELSE ReadStore(r) /\ reqs[r].gate \in {"valid", "invalid"}

C17_Step ==
    \A r \in Reqs : (Gated(r) /\ Ran(r, "gate")) =>
        /\ reqs'[r].res = (IF IsValid(reqs[r].key) THEN 1 ELSE 0)
        /\ IsUsed(reqs[r].key) => (reqs'[r].gate = "invalid" /\ reqs'[r].status = 403)

\* C17, amended: every request outside the allow-list that carries a key reads
\* the Token Store (one without a key is denied 403 without a read), and what
\* the gate decides is what the table says at the time of the read, whatever
\* earlier requests with that key got: a check that reads after a finalise of
\* the key has committed is denied with 403.
C17_NoCachedValidity == []C17_Log /\ [][C17_Step]_vars

\* within one session a page passed with the key, the key was finalised, and
\* the next page with the same key was denied although the token had not expired
C17_Witness ==
    \E a, b, c \in Reqs :
        /\ Gated(a) /\ Done(a) /\ reqs[a].gate = "valid" /\ reqs[a].status = 200
        /\ reqs[b].srv = "cs" /\ reqs[b].op = "finalise" /\ Done(b) /\ reqs[b].status = 200
        /\ reqs[b].key = reqs[a].key
        /\ Gated(c) /\ Done(c) /\ reqs[c].gate = "invalid" /\ reqs[c].status = 403
        /\ reqs[c].key = reqs[a].key
        /\ ReadStore(c)
        /\ IsUsed(reqs[a].key) /\ ~IsExpired(reqs[a].key)

-----------------------------------------------------------------------------
(* C18 *)

\* the client of request r saw its answer
Seen(r) == Done(r) /\ ~reqs[r].gone

\* the UPDATE of request r was applied
Applied(r) == reqs[r].op = "finalise" /\ reqs[r].res >= 1

C18_Log ==
    \A t \in Tokens :
        /\ (\E r \in Finalises(t) : Applied(r)) => IsUsed(t)
        /\ Cardinality({r \in Finalises(t) : Applied(r)}) <= 1
        /\ \A r \in Finalises(t) : (Seen(r) /\ reqs[r].status = 200) => Applied(r)
        /\ \A r \in Finalises(t) : (Done(r) /\ ~Applied(r)) => reqs[r].status = 400

C18_Step ==
    \A r \in Reqs : (Ran(r, "update") /\ IsUsed(reqs[r].key)) =>
        reqs'[r].res = 0 /\ tokens' = tokens

\* C18: a finalise whose UPDATE was applied has made the token used, whether
\* or not its client saw the answer; every finalise of a used token affects no
\* row, leaves the table as it was and is answered 400; so at most one request
\* per token is applied, and no client sees a 200 other than that one's.
C18_LostResponse == []C18_Log /\ [][C18_Step]_vars

\* the client of the finalise that was applied went away before the answer;
\* its retry, later, was rejected, and the row has the UsedAt of the first call
C18_Witness ==
    \E a, b \in Reqs :
        /\ Applied(a) /\ Done(a) /\ reqs[a].gone /\ reqs[a].status = 200
        /\ reqs[b].op = "finalise" /\ reqs[b].key = reqs[a].key
        /\ Seen(b) /\ reqs[b].status = 400 /\ reqs[b].msg = GenericRejection
        /\ IsUsed(reqs[a].key)
        /\ RowOf(reqs[a].key).UsedAt < dbNow
        /\ ~IsExpired(reqs[a].key)

-----------------------------------------------------------------------------
(* C19 *)

\* the report base URL of the server that took request r: its setting, or for
\* Program.cs, which reads none, the address written in its code
BaseOf(r) ==
    CASE reqs[r].srv = "node"    -> config.REPORT_BASE_URL
      [] reqs[r].srv = "cs"      -> config.reportBaseUrl
      [] reqs[r].srv = "program" -> Origin \o <<"/", "report">>

\* C19: the URL a create-token returns is the report base URL of its server,
\* followed by ?key= and the token just stored when the base URL holds no "?",
\* and by &key= and that token when it does; on all three implementations.
C19_ReportUrl ==
    \A r \in Reqs : (reqs[r].op = "create" /\ Done(r) /\ reqs[r].status = 200) =>
        /\ HasRow(reqs[r].out)
        /\ reqs[r].url =
              BaseOf(r) \o <<IF \E i \in 1..Len(BaseOf(r)) : BaseOf(r)[i] = "?"
                             THEN "&" ELSE "?", "key=", reqs[r].out>>

-----------------------------------------------------------------------------
(* C20 *)

\* the token's ExpiresAt is the time now, on the clock the check reads
AtExpiry(t, now) == HasRow(t) /\ RowOf(t).ExpiresAt = now

C20_Step ==
    \A r \in Reqs : LET t == reqs[r].key IN
        /\ (Ran(r, "select") /\ AtExpiry(t, AppNow) /\ RowOf(t).Used = 0) =>
              reqs'[r].status = 410
        /\ (Ran(r, "gate") /\ AtExpiry(t, dbNow)) =>
              reqs'[r].gate = "invalid" /\ reqs'[r].status = 403
        /\ (Ran(r, "update") /\ AtExpiry(t, dbNow)) =>
              reqs'[r].res = 0 /\ tokens' = tokens
        /\ (Ran(r, "respond") /\ reqs[r].res = 0) =>
              reqs'[r].status = 400 /\ tokens' = tokens

\* C20: at the time that equals a token's ExpiresAt the token counts as
\* expired: check-token answers 410 for it when it is unused, the gate denies
\* it with 403, and the UPDATE of finalise-token affects no row and leaves the
\* table as it was, which the handler answers with 400.
C20_ExpiryBoundary == [][C20_Step]_vars

\* the clock stands at the ExpiresAt of an unused token; the probe said 410,
\* the gate denied the key and finalise-token rejected it
C20_Witness ==
    \E a, b, c \in Reqs : LET t == reqs[a].key IN
        /\ AtExpiry(t, dbNow) /\ RowOf(t).Used = 0 /\ RowOf(t).UsedAt = NullTime
        /\ reqs[a].op = "check" /\ Done(a) /\ reqs[a].status = 410
        /\ Gated(b) /\ reqs[b].key = t /\ Done(b) /\ reqs[b].gate = "invalid"
        /\ reqs[c].op = "finalise" /\ reqs[c].key = t /\ Done(c) /\ reqs[c].status = 400

-----------------------------------------------------------------------------
(* C21 *)

\* the UPDATE of request r affected a row in this step
Succeeds(r) == Ran(r, "update") /\ reqs'[r].res >= 1

\* row i after the step is row i before it, but for Used and UsedAt
OnlyUsedChanged(i) ==
    /\ tokens'[i].Used = 1 /\ tokens[i].Used = 0
    /\ tokens'[i].UsedAt # NullTime
    /\ tokens'[i] = [tokens[i] EXCEPT !.Used = 1, !.UsedAt = tokens'[i].UsedAt]

C21_Step ==
    \A r \in Reqs : Succeeds(r) =>
        /\ Len(tokens') = Len(tokens)
        /\ identity' = identity
        /\ \E i \in 1..Len(tokens) :
              /\ tokens[i].Token = reqs[r].key
              /\ OnlyUsedChanged(i)
              /\ \A j \in 1..Len(tokens) : j # i => tokens'[j] = tokens[j]
        /\ \A t \in Tokens \ {reqs[r].key} :
              /\ HasRow(t)' = HasRow(t)
              /\ IsValid(t)' = IsValid(t)

\* C21: a finalise-token that succeeds changes Used and UsedAt of the one row
\* whose Token is the key and nothing else: the other six fields of that row,
\* every other row, the number of rows and the identity counter stay as they
\* were, and no other token becomes valid or stops being valid by it.
C21_FrameEffect == [][C21_Step]_vars

\* two tokens were issued; a finalise of one was answered 200 and the other
\* token is still valid, its row untouched
C21_Witness ==
    \E r \in Reqs, t \in Tokens :
        /\ reqs[r].op = "finalise" /\ Done(r) /\ reqs[r].status = 200
        /\ IsUsed(reqs[r].key)
        /\ t # reqs[r].key
        /\ IsValid(t) /\ RowOf(t).UsedAt = NullTime
        /\ RowOf(t).TokenId # RowOf(reqs[r].key).TokenId

-----------------------------------------------------------------------------
(* C22 *)

\* C22: check-token answers 200 for a key exactly when the token is valid on
\* the database clock at that instant, which is when a finalise-token run at
\* that instant would affect a row and the gate would count one; the clock of
\* the Node process, which check-token reads, makes no difference.
C22_OneValidity ==
    [][\A r \in Reqs : Ran(r, "select") =>
          /\ (reqs'[r].status = 200) = IsValid(reqs[r].key)
          /\ (reqs'[r].status = 200) =
                (Cardinality(ValidRows(tokens, reqs[r].key, dbNow)) > 0)
          /\ (reqs'[r].status = 200) =
                (\E i \in 1..Len(tokens) :
                    MarkUsed(tokens, reqs[r].key, dbNow)[i] # tokens[i])]_vars

-----------------------------------------------------------------------------
(* C23 *)

\* request r is a check-token that arrived in this step
ChecksIn(r) == reqs[r].pc = "idle" /\ reqs'[r].op = "check"

C23_Step ==
    \A r \in Reqs :
        /\ (ChecksIn(r) /\ Falsy(reqs'[r].key)) =>
              reqs'[r].pc = "done" /\ reqs'[r].status = 400
        /\ (ChecksIn(r) /\ ~Falsy(reqs'[r].key)) => reqs'[r].pc # "done"
        /\ (Ran(r, "select") /\ ~HasRow(reqs[r].key)) => reqs'[r].status = 404
        /\ (Ran(r, "select") /\ IsUsed(reqs[r].key)) => reqs'[r].status = 409
        /\ (Ran(r, "select") /\ reqs'[r].status = 410) =>
              /\ HasRow(reqs[r].key)
              /\ RowOf(reqs[r].key).Used = 0
              /\ RowOf(reqs[r].key).ExpiresAt <= AppNow
        /\ tokens' = tokens \/ ~Ran(r, "select")

\* C23: check-token answers 400 for a missing key before it reads anything,
\* 404 when the key has no row, 409 when the row is used whether or not it has
\* expired as well, and 410 only for a row with Used = 0 whose ExpiresAt is
\* not after the time of the Node clock.
C23_CheckOrder == [][C23_Step]_vars

\* a token was used and its time to live has passed, on both clocks; the
\* probe of it was answered 409
C23_Witness ==
    \E r \in Reqs : LET t == reqs[r].key IN
        /\ reqs[r].op = "check" /\ Done(r) /\ reqs[r].status = 409
        /\ reqs[r].msg = "Token already used."
        /\ IsUsed(t) /\ IsExpired(t) /\ RowOf(t).ExpiresAt <= AppNow
        /\ RowOf(t).UsedAt < RowOf(t).ExpiresAt

-----------------------------------------------------------------------------
(* C24 *)

\* the create-token requests whose INSERT statement has run
Attempted == {r \in Reqs : reqs[r].op = "create" /\ Done(r) /\ reqs[r].status # 400}

C24_Log ==
    /\ identity - 1 <= Cardinality(Attempted)
    /\ Len(tokens) = Cardinality({r \in Attempted : reqs[r].status = 200})

C24_Step ==
    \A r \in Reqs : (reqs[r].op = "create" /\ Ran(r, "insert")) =>
        /\ reqs'[r].pc = "done"
        /\ identity' \in {identity, identity + 1}
        /\ Len(tokens') <= Len(tokens) + 1
        /\ tokens' = tokens =>
              /\ reqs'[r].status = 500
              /\ reqs'[r].msg = "Failed to create token."
              /\ reqs'[r].out = "" /\ reqs'[r].url = <<>>
        /\ tokens' # tokens => reqs'[r].status = 200 /\ identity' = identity + 1

\* C24: a create-token request runs its INSERT once and is answered in the
\* same step: the table gains one row and the request is answered 200, or the
\* table stays as it was and the request is answered 500 "Failed to create
\* token." with no URL; an INSERT the UNIQUE constraint rejects spends one
\* identity value and no more, so the identity values spent never exceed the
\* requests that got as far as the INSERT.
C24_NoRetry == []C24_Log /\ [][C24_Step]_vars

\* the one row is unused and unexpired; a second issuance generated its
\* string, was rejected and answered 500, while a string no row holds was there
\* to be had
C24_Witness ==
    /\ Len(tokens) = 1
    /\ identity = 3
    /\ IsValid(tokens[1].Token)
    /\ \E t \in Tokens : ~HasRow(t)
    /\ \E b \in Reqs :
        /\ reqs[b].op = "create" /\ reqs[b].srv = "node" /\ Done(b)
        /\ reqs[b].status = 500 /\ reqs[b].msg = "Failed to create token."

-----------------------------------------------------------------------------
(* C25 *)

\* the message the catch of a route sends
CatchMsg(op) ==
    CASE op = "create"   -> "Failed to create token."
      [] op = "check"    -> "Failed to check token."
      [] op = "finalise" -> "Failed to finalise token."
      [] op = "stripe"   -> "Failed to finalise payment."

\* a response has been sent exactly for the requests that are done
C25_Log ==
    \A r \in Reqs :
        /\ reqs[r].pc \in {"idle", "pool", "insert", "select", "update", "respond",
                           "retrieve", "done"}
        /\ Done(r) <=> reqs[r].status # 0

C25_Step ==
    \A r \in Reqs :
        /\ Done(r) => reqs'[r] = reqs[r]
        /\ (Stepped(r) /\ ~dbUp /\ reqs[r].pc = "pool") =>
              /\ Done(r)' /\ reqs'[r].status = 500
              /\ reqs'[r].msg = NoPoolMsg(reqs[r].op)
        /\ (Stepped(r) /\ ~dbUp /\ reqs[r].pc \in {"insert", "select", "update"}) =>
              /\ Done(r)' /\ reqs'[r].status = 500
              /\ reqs'[r].msg = CatchMsg(reqs[r].op)
        /\ (Stepped(r) /\ reqs'[r].session = "throws") =>
              /\ Done(r)' /\ reqs'[r].status = 500
              /\ reqs'[r].msg = CatchMsg("stripe")
        /\ (Stepped(r) /\ ~dbUp) => tokens' = tokens

\* C25: every request to the four token routes of the Node server that has
\* arrived is answered in the end, and answered once: a request that is done
\* never changes again, a status is set exactly on the requests that are done,
\* and a step taken while the database is unreachable, or in which the payment
\* provider throws, ends the request with 500 and the fixed message of its
\* route, leaving the table as it was.
C25_OneResponse ==
    /\ []C25_Log
    /\ [][C25_Step]_vars
    /\ \A r \in 1..MaxInserts : (reqs[r].pc # "idle") ~> (reqs[r].pc = "done")

\* a check-token whose query failed and a stripe/success whose provider call
\* threw were both answered 500 with the message of their catch
C25_Witness ==
    \E a, b \in Reqs :
        /\ reqs[a].op = "check" /\ Done(a) /\ reqs[a].status = 500
        /\ reqs[a].msg = "Failed to check token."
        /\ reqs[b].op = "stripe" /\ Done(b) /\ reqs[b].status = 500
        /\ reqs[b].session = "throws" /\ reqs[b].msg = "Failed to finalise payment."

-----------------------------------------------------------------------------
(* C27 *)

\* request r arrived at the Node server in this step and got as far as getPool
CallsGetPool(r) ==
    reqs[r].pc = "idle" /\ reqs'[r].srv = "node" /\ reqs'[r].pc # "done"

\* a request answered for want of a pool never ran its statement
C27_Log ==
    /\ pool \in {"null", "connected"}
    /\ \A r \in Reqs :
          (reqs[r].srv = "node" /\ Done(r) /\ reqs[r].msg = "DB connection failed.") =>
              reqs[r].status = 500 /\ reqs[r].res = -1 /\ reqs[r].out = ""

C27_Step ==
    /\ pool = "connected" => pool' = "connected"
    /\ \A r \in Reqs :
        /\ (CallsGetPool(r) /\ pool = "connected") =>
              reqs'[r].pc = AfterPool(reqs'[r].op) /\ pool' = pool
        /\ (CallsGetPool(r) /\ pool # "connected") =>
              reqs'[r].pc = "pool" /\ pool' = pool
        /\ (Ran(r, "pool") /\ dbUp) =>
              pool' = "connected" /\ reqs'[r].pc = AfterPool(reqs[r].op)
        /\ (Ran(r, "pool") /\ ~dbUp) =>
              /\ pool' = pool
              /\ Done(r)' /\ reqs'[r].status = 500
              /\ reqs'[r].msg = NoPoolMsg(reqs[r].op)
              /\ tokens' = tokens /\ identity' = identity

\* C27: a call of getPool with a connected pool hands it back at once; with
\* none it starts one connection attempt, whoever else has one under way. An
\* attempt that succeeds stores the pool and lets the route go on to its
\* statement; one that fails leaves the pool variable as it was and has the
\* route answer 500 "DB connection failed." with the table untouched, so the
\* next attempt made while the database is reachable connects.
C27_GetPool == []C27_Log /\ [][C27_Step]_vars

\* one request was answered 500 for want of a pool; a later create-token
\* connected and was answered 200; a third request, which called getPool
\* while there was no pool, still waits for its own attempt
C27_Witness ==
    \E a, b, c \in Reqs :
        /\ Done(a) /\ reqs[a].status = 500 /\ reqs[a].msg = "DB connection failed."
        /\ reqs[b].op = "create" /\ reqs[b].srv = "node" /\ Done(b) /\ reqs[b].status = 200
        /\ a < b
        /\ reqs[c].srv = "node" /\ reqs[c].pc = "pool"
        /\ pool = "connected" /\ dbUp

-----------------------------------------------------------------------------
(* C29 *)

\* a name of one file: no scheme, no slash, no query, and .html at its end
FileName(p) ==
    /\ Len(p) >= 6
    /\ \A i \in 1..Len(p) : p[i] \notin {"/", "?", ":", "&", "#"} /\ WordChar(p[i])
    /\ <<p[Len(p) - 4], p[Len(p) - 3], p[Len(p) - 2], p[Len(p) - 1], p[Len(p)]>>
           = <<".", "h", "t", "m", "l">>

\* the redirect of request r, after the base URL and its slash and before the key
Target(r) ==
    SubSeq(reqs[r].url, Len(getBaseUrl) + 2,
           Len(reqs[r].url) - (IF reqs[r].out = "" THEN 0 ELSE 3))

C29_Log ==
    \A r \in Reqs : reqs[r].op = "stripe" =>
        /\ sanitizeReturnPath(reqs[r].ret) = BccHtml
              \/ FileName(sanitizeReturnPath(reqs[r].ret))
        /\ sanitizeReturnPath(reqs[r].ret) # BccHtml =>
              /\ reqs[r].ret # Absent /\ reqs[r].ret # NotString
              /\ \E k \in 0..Len(reqs[r].ret) :
                    /\ sanitizeReturnPath(reqs[r].ret)
                          = SubSeq(reqs[r].ret, k + 1, Len(reqs[r].ret))
                    /\ \A i \in 1..k : reqs[r].ret[i] = "/"
        /\ (Done(r) /\ reqs[r].status = 303) =>
              /\ SubSeq(reqs[r].url, 1, Len(getBaseUrl) + 1) = getBaseUrl \o <<"/">>
              /\ Target(r) = sanitizeReturnPath(reqs[r].ret)
              /\ FileName(Target(r))
              /\ reqs[r].out # "" =>
                    SubSeq(reqs[r].url, Len(reqs[r].url) - 2, Len(reqs[r].url))
                        = <<"?", "key=", reqs[r].out>>

\* C29: for every value of ?return=, sanitizeReturnPath gives BCC.html or the
\* value without its leading slashes, and what it gives is the name of one
\* .html file with no scheme, slash or query in it; every redirect of
\* stripe/success is the base URL, a slash and that name, followed when a
\* token was issued by ?key= and the token.
C29_ReturnPath == []C29_Log

\* a paid session with ?return=//B-1.html was redirected to B-1.html?key=..,
\* and one with a slash inside the name to BCC.html?key=..
C29_Witness ==
    \E a, b \in Reqs :
        /\ <<"/", "/", "B", "-", "1", ".", "h", "t", "m", "l">> = reqs[a].ret
        /\ Done(a) /\ reqs[a].status = 303 /\ reqs[a].out # ""
        /\ Target(a) = <<"B", "-", "1", ".", "h", "t", "m", "l">>
        /\ <<"/", "m", "/", "m", ".", "h", "t", "m", "l">> = reqs[b].ret
        /\ Done(b) /\ reqs[b].status = 303 /\ reqs[b].out # ""
        /\ Target(b) = BccHtml

-----------------------------------------------------------------------------
(* C26 *)

\* [A-Za-z0-9_-]
UrlSafe == {Alphabet[k] : k \in 1..62} \cup {"-", "_"}

\* the tokens made so far, with the bytes they were made of
Made ==
    {<<rnd[i], enc[i].node>> : i \in {j \in 1..Len(rnd) : enc[j].node # <<>>}}
        \cup {<<rnd[i], enc[i].cs>> : i \in {j \in 1..Len(rnd) : enc[j].cs # <<>>}}

C26_Log ==
    /\ \A m \in Made :
          /\ \A k \in 1..Len(m[2]) : m[2][k] \in UrlSafe /\ m[2][k] \notin {"+", "/", "="}
          /\ Len(m[2]) = (4 * Len(m[1]) + 2) \div 3
    /\ \A m, n \in Made :
          Len(m[1]) = Len(n[1]) => ((m[2] = n[2]) <=> (m[1] = n[1]))

\* C26: every token generateToken of the Node server or GenerateToken of the
\* ASP.NET server makes of n bytes consists of characters of [A-Za-z0-9_-]
\* alone, with no "+", "/" or "=", and has ceil(4n/3) characters; two tokens
\* made of byte strings of one length are equal exactly when the byte strings
\* are, whichever server made them.
C26_TokenAlphabet == []C26_Log

\* two byte strings of one length that differ in their last byte were encoded:
\* one as "-_8", which base64 writes "+/8=", the other as a different token
C26_Witness ==
    /\ Len(rnd) = 2
    /\ rnd[1] = <<251, 255>> /\ rnd[2] = <<251, 251>>
    /\ enc[1].node = <<"-", "_", "8">> /\ enc[1].cs = enc[1].node
    /\ enc[2].node # <<>> /\ enc[2].node # enc[1].node

-----------------------------------------------------------------------------
(* C28 *)

\* a request the worker is to keep its hands off: not a GET, another origin,
\* or a path under /api/
HandsOff(rec) ==
    \/ rec.method # "GET"
    \/ rec.origin # "same"
    \/ (Len(rec.path) >= 2 /\ rec.path[1] = "api")

\* a navigation or a path that ends in .html
PageRequest(rec) ==
    \/ rec.mode = "navigate"
    \/ (rec.path # <<>> /\ rec.path[Len(rec.path)] \in
            {"Index.html", "BCC.html", "m.html", "gone.html"})

\* the worker answered request r from its cache
FromCache(r) == reqs[r].via \in {"cache", "index"}

C28_Log ==
    \A r \in Reqs : reqs[r].srv = "sw" =>
        /\ HandsOff(reqs[r]) =>
              /\ Done(r) /\ reqs[r].via = "browser"
              /\ ~reqs[r].put /\ ~reqs[r].failed
        /\ (PageRequest(reqs[r]) /\ FromCache(r)) => reqs[r].failed
        /\ \A e \in cache : ~(Len(e.path) >= 2 /\ e.path[1] = "api")

C28_Step ==
    \A r \in Reqs :
        /\ (reqs[r].pc = "idle" /\ reqs'[r].srv = "sw" /\ HandsOff(reqs'[r])) =>
              cache' = cache
        /\ (reqs[r].srv = "sw" /\ Ran(r, "navFetch") /\ online) =>
              reqs'[r].via = "network" /\ Done(r)'
        /\ (reqs[r].srv = "sw" /\ Stepped(r) /\ FromCache(r)') =>
              /\ cache' = cache
              /\ CacheMatch(reqs[r].path) # {} \/ reqs'[r].via = "index"

\* C28: a request that is not a GET, or goes to another origin, or has a path
\* under /api/, is left to the browser at once: the worker neither looks into
\* its cache for it nor puts anything into the cache, and no entry of the
\* cache ever has a path under /api/. A navigation or a request for an .html
\* path is answered from the cache only after its own fetch from the network
\* has failed: a fetch that settles while the network is there is answered
\* with the response of the network.
C28_WorkerCache == []C28_Log /\ [][C28_Step]_vars

\* the probe of a token went past the worker; the report page was fetched
\* from the network while there was one, and without it came from the cache
C28_Witness ==
    \E a, b, c \in Reqs :
        /\ reqs[a].path = <<"api", "check-token">> /\ reqs[a].method = "GET"
        /\ reqs[a].via = "browser"
        /\ reqs[b].path = <<"BCC.html">> /\ reqs[b].via = "network" /\ reqs[b].put
        /\ reqs[c].path = <<"BCC.html">> /\ reqs[c].via = "cache" /\ reqs[c].failed
        /\ ~online

-----------------------------------------------------------------------------
(* C30 *)

\* request r was answered in this step
Ends(r) == ~Done(r) /\ Done(r)'

\* request r is a register that put a row into the table in this step
Registers(r) ==
    /\ reqs[r].op = "register" /\ Ends(r) /\ reqs'[r].status = 200
    /\ Len(users') = Len(users) + 1
    /\ users'[Len(users')].email = reqs[r].email
    /\ \A i \in 1..Len(users) : users[i].email # reqs[r].email
    /\ sessions'[reqs[r].client] = users'[Len(users')].id

\* request r is a login whose password is the one the row of its email was
\* registered with
LogsIn(r) ==
    /\ reqs[r].op = "login" /\ Ends(r) /\ reqs'[r].status = 200
    /\ \E i \in 1..Len(users) :
          /\ users[i].email = reqs[r].email
          /\ users[i].password_hash = <<"$2b$10$", reqs[r].password>>
          /\ sessions'[reqs[r].client] = users[i].id

C30_Step ==
    /\ \A c \in Clients : sessions'[c] # sessions[c] =>
          \E r \in Reqs :
              /\ reqs'[r].client = c
              /\ \/ Registers(r)
                 \/ LogsIn(r)
                 \/ reqs'[r].op = "logout" /\ Ends(r) /\ sessions'[c] = NoUser
    /\ \A r \in Reqs :
          /\ (Ends(r) /\ reqs'[r].op \in {"register", "login"} /\ reqs'[r].status # 200) =>
                sessions' = sessions /\ users' = users
          /\ (Ends(r) /\ reqs'[r].op \in {"register", "login"} /\ reqs'[r].status = 200) =>
                Registers(r) \/ LogsIn(r)
          /\ (Ends(r) /\ reqs'[r].op = "logout") =>
                sessions'[reqs'[r].client] = NoUser /\ users' = users

\* every userId in the session store is the Id of a row
C30_Log ==
    \A c \in Clients : sessions[c] # NoUser =>
        \E i \in 1..Len(users) : users[i].id = sessions[c]

\* C30: the userId of a session changes only in the step in which a register
\* of that browser inserts a row, to that row's Id, or a login of that browser
\* is answered 200, to the Id of the row of its email, whose hash is that of
\* its password, or a logout of that browser ends, to none. A register or
\* login answered anything but 200 leaves every session and the table as
\* they were; a logout leaves the browser without a userId.
C30_SessionUser == []C30_Log /\ [][C30_Step]_vars

\* one browser registered and is logged in as the new row; the other logged in
\* to that account with the password; a login of the first with a wrong
\* password was answered 401 and its session still has the userId
C30_Witness ==
    \E a, b, c \in Reqs :
        /\ reqs[a].op = "register" /\ reqs[a].status = 200 /\ reqs[a].client = "c1"
        /\ reqs[b].op = "login" /\ reqs[b].status = 200 /\ reqs[b].client = "c2"
        /\ reqs[b].email = reqs[a].email
        /\ reqs[c].op = "login" /\ reqs[c].status = 401 /\ reqs[c].client = "c1"
        /\ reqs[c].email = reqs[a].email /\ reqs[c].password # reqs[a].password
        /\ sessions["c1"] = reqs[a].uid /\ sessions["c2"] = reqs[a].uid
        /\ reqs[a].uid # NoUser

====
